---- MODULE Spec2Model ----
(***************************************************************************)
(* dev-start: the per-repository bootstrap pipeline                        *)
(* (validate -> clone -> detect -> install -> configure) with its rollback *)
(* discipline, as driven by the command-line front end (src/cli.py) and by *)
(* the desktop front end (src/gui.py).                                     *)
(***************************************************************************)
EXTENDS Integers, Sequences, FiniteSets, TLC

(***************************************************************************)
(* Bounds                                                                  *)
(***************************************************************************)
\* number of repository URLs given on the command line / in the form
NumRepos == 2

(***************************************************************************)
(* Program constants                                                       *)
(***************************************************************************)
MAX_RMTREE_RETRIES == 3

ALLOWED_URL_SCHEMES == {"http", "https", "git"}

\* class Technology(Enum)
Technology == {"JAVA_SPRINGBOOT", "JAVA_MAVEN", "JAVA_GRADLE", "PYTHON", "NODEJS", "UNKNOWN"}

(***************************************************************************)
(* Repository URLs.  A URL is the record urlparse() makes of it: scheme,   *)
(* netloc (a sequence of characters), the path as a sequence of segments   *)
(* (the last one with or without a ".git" suffix), whether the raw string  *)
(* ends in "/", and whether the raw string matches one of the dangerous    *)
(* patterns.                                                               *)
(***************************************************************************)
GitHub == <<"g", "i", "t", "h", "u", "b">>

Seg(stem, git) == [stem |-> stem, git |-> git]

Url(scheme, netloc, segs, slash, dangerous) ==
    [scheme |-> scheme, netloc |-> netloc, segs |-> segs,
     slash |-> slash, dangerous |-> dangerous]

\* the URLs a run may be given
URLs ==
    { Url("https", GitHub, <<Seg("user", FALSE), Seg("a", FALSE)>>, FALSE, FALSE),
      Url("https", GitHub, <<Seg("user", FALSE), Seg("a", TRUE)>>,  FALSE, FALSE),
      Url("ftp",   GitHub, <<Seg("user", FALSE), Seg("a", FALSE)>>, FALSE, FALSE),
      Url("https", GitHub, <<Seg("user", FALSE), Seg("b", FALSE)>>, TRUE,  FALSE) }

\* str.split(c)[0] and str.split(c)[-1]
split_first(str, c) ==
    LET at == { i \in 1..Len(str) : str[i] = c }
    IN IF at = {} THEN str
       ELSE SubSeq(str, 1, (CHOOSE i \in at : \A j \in at : i <= j) - 1)

split_last(str, c) ==
    LET at == { i \in 1..Len(str) : str[i] = c }
    IN IF at = {} THEN str
       ELSE SubSeq(str, (CHOOSE i \in at : \A j \in at : i >= j) + 1, Len(str))

\* hostname = parsed.netloc.split(':')[0].split('@')[-1]
hostname(netloc) == split_last(split_first(netloc, ":"), "@")

\* RepositoryManager.validate_repo_url: TRUE when it returns, FALSE when it
\* raises InvalidURLError
validate_repo_url(url) ==
    /\ url.scheme \in ALLOWED_URL_SCHEMES
    /\ Len(url.netloc) > 0
    /\ Len(hostname(url.netloc)) >= 3
    /\ ~url.dangerous
    /\ Len(url.segs) > 0

\* RepositoryManager.get_repo_name: last segment of the URL with trailing "/"
\* removed, minus a ".git" suffix
get_repo_name(url) == url.segs[Len(url.segs)].stem

Names == { get_repo_name(u) : u \in URLs }

(***************************************************************************)
(* The projects directory.  fs[n] says what is at base_dir / n:            *)
(* ABSENT, a directory that was there before the run (PREEXISTING), or a   *)
(* directory created by the clone step of job k (k >= 1).                  *)
(***************************************************************************)
ABSENT == -1
PREEXISTING == 0

exists(f, n) == f[n] # ABSENT

(***************************************************************************)
(* safe_rmtree.  plan[i] is what the i-th call of shutil.rmtree does:      *)
(* "ok" removes the tree, "perm" raises PermissionError, "oserr" raises    *)
(* another OSError, "exc" raises an exception that is not an OSError.      *)
(* The result tells what safe_rmtree returns ("True", "False") or that it  *)
(* raises ("raise"), how many removals it attempted, how often it slept    *)
(* and whether the tree is gone.                                           *)
(***************************************************************************)
RmtreeOutcomes == {"ok", "perm", "oserr", "exc"}

RmtreePlans == [1..MAX_RMTREE_RETRIES -> RmtreeOutcomes]

RECURSIVE rmtree_loop(_, _, _, _, _)
rmtree_loop(path_exists, plan, max_retries, attempt, sleeps) ==
    IF attempt >= max_retries
    THEN [ret |-> "False", attempts |-> attempt, sleeps |-> sleeps, removed |-> FALSE]
    ELSE IF ~path_exists
    THEN [ret |-> "True", attempts |-> attempt, sleeps |-> sleeps, removed |-> FALSE]
    ELSE CASE plan[attempt + 1] = "ok" ->
                [ret |-> "True", attempts |-> attempt + 1, sleeps |-> sleeps, removed |-> TRUE]
           [] plan[attempt + 1] = "perm" ->
                IF attempt < max_retries - 1
                THEN rmtree_loop(path_exists, plan, max_retries, attempt + 1, sleeps + 1)
                ELSE [ret |-> "False", attempts |-> attempt + 1, sleeps |-> sleeps, removed |-> FALSE]
           [] plan[attempt + 1] = "oserr" ->
                [ret |-> "False", attempts |-> attempt + 1, sleeps |-> sleeps, removed |-> FALSE]
           [] OTHER ->
                [ret |-> "raise", attempts |-> attempt + 1, sleeps |-> sleeps, removed |-> FALSE]

\* a variant whose loop always runs the default number of times
safe_rmtree_DefaultRetries(path_exists, plan, max_retries) ==
    rmtree_loop(path_exists, plan, MAX_RMTREE_RETRIES, 0, 0)

safe_rmtree(path_exists, plan, max_retries) ==
    rmtree_loop(path_exists, plan, max_retries, 0, 0)

(***************************************************************************)
(* Installers.  _get_installer maps a technology to its installer class;   *)
(* the outcome sets list what install() and configure() of each class can  *)
(* do: return True, return False, or let an exception escape ("raise").    *)
(***************************************************************************)
_get_installer(technology) ==
    CASE technology \in {"JAVA_SPRINGBOOT", "JAVA_MAVEN", "JAVA_GRADLE"} -> "JavaInstaller"
      [] technology = "PYTHON" -> "PythonInstaller"
      [] technology = "NODEJS" -> "NodeJSInstaller"
      [] OTHER -> "None"

\* TechnologyDetector.detect: the values its return statements produce
DetectResults == {"JAVA_SPRINGBOOT", "PYTHON", "NODEJS", "UNKNOWN"}

InstallOutcomes(installer) ==
    CASE installer = "JavaInstaller" -> {"True", "False", "raise"}
      [] installer = "PythonInstaller" -> {"True", "False"}
      [] OTHER -> {"True", "False"}

ConfigureOutcomes(installer) ==
    CASE installer = "JavaInstaller" -> {"True", "raise"}
      [] installer = "PythonInstaller" -> {"True", "False", "raise"}
      [] OTHER -> {"True", "False", "raise"}

(***************************************************************************)
(* State                                                                   *)
(***************************************************************************)
VARIABLES
    repositories,   \* the URLs given to the run, in order
    fs,             \* the projects directory
    pc,             \* position of the front end
    idx,            \* 1-based index of the job being processed
    repo_path,      \* name under base_dir of the current job, or "None"
    technology,     \* result of detect for the current job, or "None"
    installer,      \* installer class of the current job, or "None"
    rbCaller,       \* where _rollback was called from
    ret,            \* how process_repository ended
    events,         \* what the current job did and logged, in order
    fsAtStart,      \* fs when the current job started
    successful,     \* main: successful
    failed,         \* main: failed
    results,        \* terminal outcome of every finished job
    exit_code,      \* exit status of the run, -1 while running
    rm_args,        \* safe_rmtree called on its own: its arguments
    rm_ret,         \* ... and how the call ended
    dl_args,        \* download_and_extract: expected_checksum and cleanup_zip
    dl_zip,         \* the file at the destination path (zip_path)
    dl_pc,          \* position inside download_and_extract
    dl_body,        \* what the request gave, and what download_file returned
    dl_archive,     \* the archive that was opened, and how extractall ended
    dl_ret,         \* the (success, extracted_path) returned to the caller
    dl_kind,        \* what went wrong in this call, if anything
    dl_prev,        \* kind and result of the call before this one
    tools_dir,      \* ~/.dev-start/tools: the state of each tool directory
    wired,          \* tool directories put into *_HOME and PATH
    system,         \* commands the host has had from the start
    ncalls,         \* calls of install() made in this run
    returned_true,  \* tool directories whose install() has returned True
    last_install,   \* the latest call of install() and what it did
    detector,       \* TechnologyDetector: the repository given and the answers
    urlcall,        \* RepositoryManager: the URL given and the answers
    proxy,          \* ProxyManager: its fields, os.environ and the last set_proxy
    envfile,        \* EnvironmentManager: the .env file, the variables set, the last call
    maven,          \* _install_maven: the mirrors, the attempts made and the result
    cfg,            \* configure() called on its own: the project, the steps, the result
    envwire,        \* setup_tool_environment: the writes made and how install() ended
    worker,         \* the GUI: its controls, the worker threads and the streams
    gitcheck        \* main: ensure_git_installed and what the run does after it

rmVars == <<rm_args, rm_ret>>
dlVars == <<dl_args, dl_zip, dl_pc, dl_body, dl_archive, dl_ret, dl_kind, dl_prev>>
instVars == <<tools_dir, wired, system, ncalls, returned_true, last_install>>
fnVars == <<detector, urlcall, proxy, envfile, maven>>
moreVars == <<cfg, envwire, worker, gitcheck>>
toolVars == <<rmVars, dlVars, instVars, fnVars, moreVars>>

vars == <<repositories, fs, pc, idx, repo_path, technology, installer, rbCaller,
          ret, events, fsAtStart, successful, failed, results, exit_code, toolVars>>

jobVars == <<repo_path, technology, installer, rbCaller, ret, events, fsAtStart>>
mainVars == <<successful, failed, results, exit_code>>
pipelineVars == <<repositories, fs, pc, idx, jobVars, mainVars>>

\* no call of safe_rmtree on its own is under way
NoRmtreeCall == [front |-> "None", ret |-> "None", attempts |-> 0, sleeps |-> 0,
                 removed |-> FALSE]

RmIdle ==
    /\ rm_args = [path_exists |-> FALSE, plan |-> <<>>, max_retries |-> 0]
    /\ rm_ret = NoRmtreeCall

\* nothing has been requested, opened or returned yet
NoBody == [net |-> "None", actual |-> <<>>, ret |-> "None"]
NoArchive == [valid |-> FALSE, namelist |-> {}, extractall |-> "None"]
NoResult == [success |-> "None", extracted |-> "None"]
NoCall == [kind |-> "none", ret |-> NoResult]

DlIdle ==
    /\ dl_args = [expected_checksum |-> [given |-> FALSE, value |-> <<>>],
                  cleanup_zip |-> TRUE]
    /\ dl_zip = "absent"
    /\ dl_pc = "idle"
    /\ dl_body = NoBody
    /\ dl_archive = NoArchive
    /\ dl_ret = NoResult
    /\ dl_kind = "none"
    /\ dl_prev = NoCall

\* the directories under get_tools_dir() that the installers test
ToolDirs == {"git", "jdk-17", "jdk-11", "maven", "nodejs"}

NoInstall ==
    [installer |-> "None", version |-> "None", pom |-> FALSE, probe |-> FALSE,
     present_before |-> FALSE, again |-> FALSE, true_before |-> {},
     downloads |-> {}, wiring |-> FALSE, ret |-> "None"]

InstIdle ==
    /\ tools_dir = [d \in ToolDirs |-> "absent"]
    /\ wired = {}
    /\ system = {}
    /\ ncalls = 0
    /\ returned_true = {}
    /\ last_install = NoInstall

\* the component is not exercised on its own
Idle == [state |-> "idle"]

DetectorIdle == detector = Idle
UrlIdle == urlcall = Idle
ProxyIdle == proxy = Idle
EnvIdle == envfile = Idle
MavenIdle == maven = Idle

MoreIdle == cfg = Idle /\ envwire = Idle /\ worker = Idle /\ gitcheck = Idle

FnIdle == DetectorIdle /\ UrlIdle /\ ProxyIdle /\ EnvIdle /\ MavenIdle /\ MoreIdle

ToolsIdle == RmIdle /\ DlIdle /\ InstIdle /\ FnIdle

\* no front end is processing repositories
PipelineIdle ==
    /\ repositories = <<>>
    /\ fs = [n \in Names |-> ABSENT]
    /\ pc = "idle"
    /\ idx = 0
    /\ repo_path = "None"
    /\ technology = "None"
    /\ installer = "None"
    /\ rbCaller = "None"
    /\ ret = "None"
    /\ events = <<>>
    /\ fsAtStart = fs
    /\ successful = 0
    /\ failed = 0
    /\ results = <<>>
    /\ exit_code = -1

Init ==
    /\ repositories \in [1..NumRepos -> URLs]
    /\ fs \in [Names -> {ABSENT, PREEXISTING}]
    /\ pc = "main"
    /\ idx = 1
    /\ repo_path = "None"
    /\ technology = "None"
    /\ installer = "None"
    /\ rbCaller = "None"
    /\ ret = "None"
    /\ events = <<>>
    /\ fsAtStart = fs
    /\ successful = 0
    /\ failed = 0
    /\ results = <<>>
    /\ exit_code = -1
    /\ ToolsIdle

\* process_repository ends after logging evs: r is "True" or "False" (the
\* value returned) or the kind of exception that escapes it
\* ("DevStartError", "Exception")
Return(r, evs) ==
    /\ ret' = r
    /\ pc' = "returned"
    /\ events' = events \o evs
    /\ UNCHANGED rbCaller

\* self._rollback(repo_path) is called from site c after logging evs
CallRollback(c, evs) ==
    /\ rbCaller' = c
    /\ pc' = "rollback"
    /\ events' = events \o evs \o <<"rollback_call">>
    /\ UNCHANGED ret

\* the pipeline moves on to stage p after logging evs
Goto(p, evs) ==
    /\ pc' = p
    /\ events' = events \o evs
    /\ UNCHANGED <<rbCaller, ret>>

Remove(f, n) == [f EXCEPT ![n] = ABSENT]

(***************************************************************************)
(* Command-line front end: main() and DevStartCLI.process_repository       *)
(***************************************************************************)

\* main, line 301: take the next URL and enter process_repository, whose
\* first statements derive repo_path from it
MainLoop ==
    /\ pc = "main"
    /\ idx <= NumRepos
    /\ repo_path' = get_repo_name(repositories[idx])
    /\ technology' = "None"
    /\ installer' = "None"
    /\ rbCaller' = "None"
    /\ ret' = "None"
    /\ events' = <<>>
    /\ fsAtStart' = fs
    /\ pc' = "check_exists"
    /\ UNCHANGED <<toolVars, repositories, fs, idx, mainVars>>

\* if repo_path.exists(): warn and ask, else go on to validation
CheckExists ==
    /\ pc = "check_exists"
    /\ IF exists(fs, repo_path)
       THEN Goto("confirm", <<"warn_exists">>)
       ELSE Goto("validate", <<>>)
    /\ UNCHANGED <<toolVars, repositories, fs, idx, repo_path, technology, installer, fsAtStart, mainVars>>

\* a variant in which a declined overwrite falls through to validation
ConfirmDeclined_FallsThrough == Goto("validate", <<"confirm_no">>)

\* the user answers "n" to "Do you want to overwrite it?"
ConfirmDeclined == Return("False", <<"confirm_no">>)

\* the user answers "y"
ConfirmAccepted == Goto("overwrite", <<"confirm_yes">>)

\* click.confirm: "y", "n", or the prompt is aborted (click.Abort, which is
\* not a DevStartError)
Confirm ==
    /\ pc = "confirm"
    /\ \/ ConfirmAccepted
       \/ ConfirmDeclined
       \/ Return("Exception", <<"confirm_abort">>)
    /\ UNCHANGED <<toolVars, repositories, fs, idx, repo_path, technology, installer, fsAtStart, mainVars>>

\* if not self.safe_rmtree(str(repo_path)): error, return False
Overwrite ==
    /\ pc = "overwrite"
    /\ \E plan \in RmtreePlans :
         LET r == safe_rmtree(exists(fs, repo_path), plan, MAX_RMTREE_RETRIES) IN
           /\ fs' = IF r.removed THEN Remove(fs, repo_path) ELSE fs
           /\ CASE r.ret = "True" -> Goto("validate", <<"overwrite_ok">>)
                [] r.ret = "False" -> Return("False", <<"overwrite_failed">>)
                [] OTHER -> Return("Exception", <<"overwrite_raised">>)
    /\ UNCHANGED <<toolVars, repositories, idx, repo_path, technology, installer, fsAtStart, mainVars>>

\* try: validate_repo_url(repo_url) except InvalidURLError: return False
Validate ==
    /\ pc = "validate"
    /\ IF validate_repo_url(repositories[idx])
       THEN Goto("clone", <<"validate_ok">>)
       ELSE Return("False", <<"validate_failed">>)
    /\ UNCHANGED <<toolVars, repositories, fs, idx, repo_path, technology, installer, fsAtStart, mainVars>>

\* if not clone_repository(...): error, return False
CloneFailed == Return("False", <<"clone_call", "clone_failed">>)

\* clone_repository: the clone succeeds, or it fails and git has removed
\* what it wrote, or it fails with the destination directory left behind
\* (git.InvalidGitRepositoryError, an interrupted or failing cleanup)
Clone ==
    /\ pc = "clone"
    /\ \/ /\ fs' = [fs EXCEPT ![repo_path] = idx]
          /\ Goto("detect", <<"clone_call", "clone_ok">>)
       \/ /\ fs' = fs
          /\ CloneFailed
       \/ /\ fs' = [fs EXCEPT ![repo_path] = idx]
          /\ CloneFailed
    /\ UNCHANGED <<toolVars, repositories, idx, repo_path, technology, installer, fsAtStart, mainVars>>

\* a variant that reports the unknown technology and returns without rollback
UnknownTechnology_NoRollback == Return("False", <<"detect_unknown">>)

\* if technology == Technology.UNKNOWN: error, rollback, return False
UnknownTechnology == CallRollback("unknown", <<"detect_unknown">>)

\* technology = self.detector.detect(repo_path)
Detect ==
    /\ pc = "detect"
    /\ \E t \in DetectResults :
         /\ technology' = t
         /\ IF t = "UNKNOWN"
            THEN UnknownTechnology
            ELSE Goto("get_installer", <<"detect_ok">>)
    /\ UNCHANGED <<toolVars, repositories, fs, idx, repo_path, installer, fsAtStart, mainVars>>

\* if not installer: error, rollback, return False
NoInstaller == CallRollback("no_installer", <<"no_installer">>)

\* a variant that installs although the toolchain is reported installed
AlreadyInstalled_InstallsAnyway == Goto("install", <<"is_installed_true">>)

\* the toolchain is reported installed: install() is skipped
AlreadyInstalled == Goto("configure", <<"is_installed_true">>)

\* installer = self._get_installer(...); if not installer.is_installed(): ...
GetInstaller ==
    /\ pc = "get_installer"
    /\ installer' = _get_installer(technology)
    /\ IF installer' = "None"
       THEN NoInstaller
       ELSE \/ AlreadyInstalled
            \/ Goto("install", <<"is_installed_false">>)
    /\ UNCHANGED <<toolVars, repositories, fs, idx, repo_path, technology, fsAtStart, mainVars>>

\* a variant that reports the failed installation and returns without rollback
InstallFailed_NoRollback == Return("False", <<"install_call", "install_failed">>)

\* if not installer.install(): error, rollback, return False
InstallFailed == CallRollback("install", <<"install_call", "install_failed">>)

\* installer.install()
Install ==
    /\ pc = "install"
    /\ \E o \in InstallOutcomes(installer) :
         CASE o = "True" -> Goto("configure", <<"install_call", "install_ok">>)
           [] o = "False" -> InstallFailed
           [] OTHER -> Return("Exception", <<"install_call", "install_raised">>)
    /\ UNCHANGED <<toolVars, repositories, fs, idx, repo_path, technology, installer, fsAtStart, mainVars>>

\* if not installer.configure(): error, rollback, return False
ConfigureFailed == CallRollback("configure", <<"configure_call", "configure_failed">>)

\* installer.configure(); on success the project is ready and True is returned
Configure ==
    /\ pc = "configure"
    /\ \E o \in ConfigureOutcomes(installer) :
         CASE o = "True" -> Return("True", <<"configure_call", "configure_ok">>)
           [] o = "False" -> ConfigureFailed
           [] OTHER -> Return("Exception", <<"configure_call", "configure_raised">>)
    /\ UNCHANGED <<toolVars, repositories, fs, idx, repo_path, technology, installer, fsAtStart, mainVars>>

\* the call sites of _rollback inside the try block
BodyCallers == {"unknown", "no_installer", "install", "configure"}

\* what _rollback logs once safe_rmtree has returned b ("True" or "False")
RollbackReport(b) == "log_rollback_completed"

\* _rollback, and what its caller does next.  When safe_rmtree raises,
\* _rollback raises RollbackError: raised inside the try block it is caught
\* by "except DevStartError", which rolls back again; raised inside an except
\* clause it escapes process_repository.
Rollback ==
    /\ pc = "rollback"
    /\ IF ~exists(fs, repo_path)
       THEN /\ fs' = fs
            /\ Return("False", <<>>)
       ELSE \E plan \in RmtreePlans :
              LET r == safe_rmtree(TRUE, plan, MAX_RMTREE_RETRIES) IN
                /\ fs' = IF r.removed THEN Remove(fs, repo_path) ELSE fs
                /\ CASE r.ret = "True" ->
                          Return("False", <<"rmtree_true", RollbackReport("True")>>)
                     [] r.ret = "False" ->
                          Return("False", <<"rmtree_false", RollbackReport("False")>>)
                     [] OTHER ->
                          IF rbCaller \in BodyCallers
                          THEN CallRollback("except_devstart",
                                            <<"rmtree_raised", "log_rollback_failed">>)
                          ELSE Return("DevStartError",
                                      <<"rmtree_raised", "log_rollback_failed">>)
    /\ UNCHANGED <<toolVars, repositories, idx, repo_path, technology, installer, fsAtStart, mainVars>>

\* stages of the try block in which a KeyboardInterrupt can arrive
Interruptible ==
    \/ pc \in {"check_exists", "overwrite", "validate", "clone", "detect",
               "get_installer", "install", "configure"}
    \/ pc = "rollback" /\ rbCaller \in BodyCallers

\* what an interrupted stage can leave at repo_path: an interrupted clone
\* may or may not have created the directory, an interrupted removal may or
\* may not have finished
InterruptedFs ==
    CASE pc = "clone" -> {fs, [fs EXCEPT ![repo_path] = idx]}
      [] pc \in {"overwrite", "rollback"} -> {fs, Remove(fs, repo_path)}
      [] OTHER -> {fs}

\* a variant of the handler that returns without rolling back
InterruptHandler_NoRollback(f) == Return("False", <<"interrupt">>)

\* except KeyboardInterrupt: if repo_path and repo_path.exists(): rollback
InterruptHandler(f) ==
    IF exists(f, repo_path)
    THEN CallRollback("except_interrupt", <<"interrupt">>)
    ELSE Return("False", <<"interrupt">>)

Interrupt ==
    /\ Interruptible
    /\ \E f \in InterruptedFs :
         /\ fs' = f
         /\ InterruptHandler(f)
    /\ UNCHANGED <<toolVars, repositories, idx, repo_path, technology, installer, fsAtStart, mainVars>>

\* a variant of the loop body without the "except Exception" clause's count
Count_DropsUnexpected(r) ==
    /\ successful' = IF r = "True" THEN successful + 1 ELSE successful
    /\ failed' = IF r \in {"False", "DevStartError"} THEN failed + 1 ELSE failed
    /\ results' = Append(results, IF r = "True" THEN "READY" ELSE "FAILED")

\* main, lines 302-312: count the job
Count(r) ==
    IF r = "True"
    THEN /\ successful' = successful + 1
         /\ failed' = failed
         /\ results' = Append(results, "READY")
    ELSE /\ successful' = successful
         /\ failed' = failed + 1
         /\ results' = Append(results, "FAILED")

\* a variant of main's loop without the except clauses: an exception that
\* leaves process_repository ends the run
MainCount_AbortsOnException ==
    /\ pc = "returned"
    /\ IF ret \in {"True", "False"}
       THEN /\ Count(ret)
            /\ idx' = idx + 1
            /\ pc' = "main"
            /\ UNCHANGED exit_code
       ELSE /\ pc' = "exit"
            /\ exit_code' = 1
            /\ UNCHANGED <<idx, successful, failed, results>>
    /\ UNCHANGED <<toolVars, repositories, fs, jobVars>>

MainCount ==
    /\ pc = "returned"
    /\ Count(ret)
    /\ idx' = idx + 1
    /\ pc' = "main"
    /\ UNCHANGED <<toolVars, repositories, fs, jobVars, exit_code>>

\* main, lines 314-320: summary and exit status
Summary ==
    /\ pc = "main"
    /\ idx > NumRepos
    /\ exit_code' = IF failed > 0 THEN 1 ELSE 0
    /\ pc' = "exit"
    /\ UNCHANGED <<toolVars, repositories, fs, idx, jobVars, successful, failed, results>>

Next ==
    \/ MainLoop
    \/ CheckExists
    \/ Confirm
    \/ Overwrite
    \/ Validate
    \/ Clone
    \/ Detect
    \/ GetInstaller
    \/ Install
    \/ Configure
    \/ Rollback
    \/ Interrupt
    \/ MainCount
    \/ Summary

Spec == Init /\ [][Next]_vars

(***************************************************************************)
(* Desktop front end: the repository loop of DevStartGUI.run_installation  *)
(***************************************************************************)

\* DevStartGUI.safe_rmtree: as the CLI's, but any exception that is not a
\* PermissionError makes it return False, and the "if os.path.exists(path)"
\* has no else branch: on a path that does not exist every iteration does
\* nothing and the loop runs out (attempts counts the calls of shutil.rmtree)
RECURSIVE gui_rmtree_loop(_, _, _, _, _)
gui_rmtree_loop(path_exists, plan, max_retries, attempt, sleeps) ==
    IF attempt >= max_retries
    THEN [ret |-> "False", attempts |-> IF path_exists THEN attempt ELSE 0,
          sleeps |-> sleeps, removed |-> FALSE]
    ELSE IF ~path_exists
    THEN gui_rmtree_loop(path_exists, plan, max_retries, attempt + 1, sleeps)
    ELSE CASE plan[attempt + 1] = "ok" ->
                [ret |-> "True", attempts |-> attempt + 1, sleeps |-> sleeps, removed |-> TRUE]
           [] plan[attempt + 1] = "perm" ->
                IF attempt < max_retries - 1
                THEN gui_rmtree_loop(path_exists, plan, max_retries, attempt + 1, sleeps + 1)
                ELSE [ret |-> "False", attempts |-> attempt + 1, sleeps |-> sleeps, removed |-> FALSE]
           [] OTHER ->
                [ret |-> "False", attempts |-> attempt + 1, sleeps |-> sleeps, removed |-> FALSE]

gui_safe_rmtree(path_exists, plan) ==
    gui_rmtree_loop(path_exists, plan, 3, 0, 0)

\* self.report.add_repository(repo_url, success, ...), then on to the next URL
add_repository(success, evs) ==
    /\ events' = events \o evs
    /\ ret' = IF success THEN "True" ELSE "False"
    /\ results' = Append(results, IF success THEN "READY" ELSE "FAILED")
    /\ successful' = IF success THEN successful + 1 ELSE successful
    /\ failed' = IF success THEN failed ELSE failed + 1
    /\ idx' = idx + 1
    /\ pc' = "g_loop"

GuiGoto(p, evs) ==
    /\ pc' = p
    /\ events' = events \o evs
    /\ UNCHANGED <<idx, ret, successful, failed, results>>

\* for repo_url in repo_urls: repo_path = base_dir / get_repo_name(repo_url)
GuiLoop ==
    /\ pc = "g_loop"
    /\ idx <= NumRepos
    /\ repo_path' = get_repo_name(repositories[idx])
    /\ technology' = "None"
    /\ installer' = "None"
    /\ ret' = "None"
    /\ events' = <<>>
    /\ fsAtStart' = fs
    /\ pc' = "g_check_exists"
    /\ UNCHANGED <<toolVars, repositories, fs, idx, rbCaller, mainVars>>

\* if repo_path.exists(): if not self.safe_rmtree(...): failed, continue
GuiRemoveExisting ==
    /\ pc = "g_check_exists"
    /\ IF ~exists(fs, repo_path)
       THEN /\ fs' = fs
            /\ GuiGoto("g_clone", <<>>)
       ELSE \E plan \in RmtreePlans :
              LET r == gui_safe_rmtree(TRUE, plan) IN
                /\ fs' = IF r.removed THEN Remove(fs, repo_path) ELSE fs
                /\ IF r.ret = "True"
                   THEN GuiGoto("g_clone", <<"warn_exists", "overwrite_ok">>)
                   ELSE add_repository(FALSE, <<"warn_exists", "overwrite_failed">>)
    /\ UNCHANGED <<toolVars, repositories, repo_path, technology, installer, rbCaller, fsAtStart, exit_code>>

\* if not clone_repository(...): failed, continue.  clone_repository
\* validates the URL itself and re-raises InvalidURLError, which the loop's
\* "except Exception" records as a failure
GuiClone ==
    /\ pc = "g_clone"
    /\ IF ~validate_repo_url(repositories[idx])
       THEN /\ fs' = fs
            /\ add_repository(FALSE, <<"validate_failed">>)
       ELSE \/ /\ fs' = [fs EXCEPT ![repo_path] = idx]
               /\ GuiGoto("g_detect", <<"validate_ok", "clone_call", "clone_ok">>)
            \/ /\ fs' \in {fs, [fs EXCEPT ![repo_path] = idx]}
               /\ add_repository(FALSE, <<"validate_ok", "clone_call", "clone_failed">>)
    /\ UNCHANGED <<toolVars, repositories, repo_path, technology, installer, rbCaller, fsAtStart, exit_code>>

\* technology = self.detector.detect(repo_path); UNKNOWN: failed, continue
GuiDetect ==
    /\ pc = "g_detect"
    /\ \E t \in DetectResults :
         /\ technology' = t
         /\ IF t = "UNKNOWN"
            THEN add_repository(FALSE, <<"detect_unknown">>)
            ELSE GuiGoto("g_get_installer", <<"detect_ok">>)
    /\ UNCHANGED <<toolVars, repositories, fs, repo_path, installer, rbCaller, fsAtStart, exit_code>>

\* DevStartGUI._get_installer
gui_get_installer(tech) ==
    CASE tech = "JAVA_SPRINGBOOT" -> "JavaInstaller"
      [] tech = "PYTHON" -> "PythonInstaller"
      [] tech = "NODEJS" -> "NodeJSInstaller"
      [] OTHER -> "None"

\* installer = self._get_installer(...); if not installer.is_installed(): ...
GuiGetInstaller ==
    /\ pc = "g_get_installer"
    /\ installer' = gui_get_installer(technology)
    /\ IF installer' = "None"
       THEN add_repository(FALSE, <<"no_installer">>)
       ELSE \/ GuiGoto("g_configure", <<"is_installed_true">>)
            \/ GuiGoto("g_install", <<"is_installed_false">>)
    /\ UNCHANGED <<toolVars, repositories, fs, repo_path, technology, rbCaller, fsAtStart, exit_code>>

\* if not installer.install(): failed, continue
GuiInstall ==
    /\ pc = "g_install"
    /\ \E o \in InstallOutcomes(installer) :
         CASE o = "True" -> GuiGoto("g_configure", <<"install_call", "install_ok">>)
           [] o = "False" -> add_repository(FALSE, <<"install_call", "install_failed">>)
           [] OTHER -> add_repository(FALSE, <<"install_call", "install_raised">>)
    /\ UNCHANGED <<toolVars, repositories, fs, repo_path, technology, installer, rbCaller, fsAtStart, exit_code>>

\* if not installer.configure(): failed, continue; else the project is ready
GuiConfigure ==
    /\ pc = "g_configure"
    /\ \E o \in ConfigureOutcomes(installer) :
         CASE o = "True" -> add_repository(TRUE, <<"configure_call", "configure_ok">>)
           [] o = "False" -> add_repository(FALSE, <<"configure_call", "configure_failed">>)
           [] OTHER -> add_repository(FALSE, <<"configure_call", "configure_raised">>)
    /\ UNCHANGED <<toolVars, repositories, fs, repo_path, technology, installer, rbCaller, fsAtStart, exit_code>>

\* self.report.end() and the closing lines
GuiFinish ==
    /\ pc = "g_loop"
    /\ idx > NumRepos
    /\ pc' = "g_done"
    /\ UNCHANGED <<toolVars, repositories, fs, idx, jobVars, mainVars>>

GuiInit ==
    /\ repositories \in [1..NumRepos -> URLs]
    /\ fs \in [Names -> {ABSENT, PREEXISTING}]
    /\ pc = "g_loop"
    /\ idx = 1
    /\ repo_path = "None"
    /\ technology = "None"
    /\ installer = "None"
    /\ rbCaller = "None"
    /\ ret = "None"
    /\ events = <<>>
    /\ fsAtStart = fs
    /\ successful = 0
    /\ failed = 0
    /\ results = <<>>
    /\ exit_code = -1
    /\ ToolsIdle

GuiNext ==
    \/ GuiLoop
    \/ GuiRemoveExisting
    \/ GuiClone
    \/ GuiDetect
    \/ GuiGetInstaller
    \/ GuiInstall
    \/ GuiConfigure
    \/ GuiFinish

SpecGUI == GuiInit /\ [][GuiNext]_vars

(***************************************************************************)
(* safe_rmtree on its own: one call of the CLI's or of the GUI's method,   *)
(* with the path present or not, any max_retries from 0 to MaxRetriesArg    *)
(* and any outcome of each call of shutil.rmtree.                          *)
(***************************************************************************)
MaxRetriesArg == 4

RmtreeArgs ==
    [path_exists : BOOLEAN,
     plan : [1..MaxRetriesArg -> RmtreeOutcomes],
     max_retries : 0..MaxRetriesArg]

RmtreeInit ==
    /\ PipelineIdle
    /\ FnIdle
    /\ DlIdle
    /\ InstIdle
    /\ MoreIdle
    /\ rm_args \in RmtreeArgs
    /\ rm_ret = NoRmtreeCall

\* DevStartCLI.safe_rmtree(path, max_retries)
SafeRmtreeCall ==
    /\ rm_ret.front = "None"
    /\ LET r == safe_rmtree(rm_args.path_exists, rm_args.plan, rm_args.max_retries)
       IN rm_ret' = [front |-> "cli", ret |-> r.ret, attempts |-> r.attempts,
                     sleeps |-> r.sleeps, removed |-> r.removed]
    /\ UNCHANGED <<pipelineVars, fnVars, moreVars, rm_args, dlVars, instVars>>

\* DevStartGUI.safe_rmtree(path, max_retries)
GuiSafeRmtreeCall ==
    /\ rm_ret.front = "None"
    /\ LET r == gui_rmtree_loop(rm_args.path_exists, rm_args.plan, rm_args.max_retries, 0, 0)
       IN rm_ret' = [front |-> "gui", ret |-> r.ret, attempts |-> r.attempts,
                     sleeps |-> r.sleeps, removed |-> r.removed]
    /\ UNCHANGED <<pipelineVars, fnVars, moreVars, rm_args, dlVars, instVars>>

RmtreeNext ==
    \/ SafeRmtreeCall
    \/ GuiSafeRmtreeCall

SpecRmtree == RmtreeInit /\ [][RmtreeNext]_vars

(***************************************************************************)
(* BaseInstaller.download_file and download_and_extract.  A digest is the   *)
(* sequence of its characters; an archive entry name is the sequence of    *)
(* its characters, "/" among them.                                         *)
(***************************************************************************)
DigestLen == 2

\* str.lower() on the characters a digest can contain
lower_char(c) ==
    CASE c = "A" -> "a"
      [] OTHER -> c

lower(str) == [i \in 1..Len(str) |-> lower_char(str[i])]

\* hashlib.sha256().hexdigest(): DigestLen characters, lower case
HexDigests == [1..DigestLen -> {"a", "1"}]

\* expected_checksum: None, or a string of any case and length (the empty
\* string included)
ExpectedChecksums ==
    {[given |-> FALSE, value |-> <<>>]} \cup
    { [given |-> TRUE, value |-> v] :
        v \in UNION { [1..n -> {"a", "A", "1"}] : n \in 0..DigestLen } }

\* "if expected_checksum:" -- None and the empty string are both false
truthy(expected_checksum) ==
    expected_checksum.given /\ expected_checksum.value # <<>>

\* what requests.get / raise_for_status / the write loop can do
NetOutcomes == {"ok", "Timeout", "HTTPError", "ConnectionError",
                "RequestException", "IOError"}

\* int(response.headers.get('content-length', 0)) on a header that is not a
\* number raises ValueError, before the destination is opened
UncaughtByDownload == {"ValueError"}

\* a variant that compares the digests as they are written
download_file_CaseSensitive(net, actual, expected_checksum, file) ==
    CASE net = "IOError" -> [ret |-> "False", file |-> "partial"]
      [] net \in UncaughtByDownload -> [ret |-> "raise", file |-> file]
      [] net # "ok" -> [ret |-> "False", file |-> file]
      [] OTHER ->
            IF truthy(expected_checksum) /\ actual # expected_checksum.value
            THEN [ret |-> "False", file |-> "absent"]
            ELSE [ret |-> "True", file |-> "complete"]

\* download_file(url, destination, expected_checksum): the value returned
\* and the file left at destination.  A failed request leaves destination
\* as it was; an IOError while writing leaves what was written so far; an
\* exception that no except clause names leaves the function.
download_file(net, actual, expected_checksum, file) ==
    CASE net = "IOError" -> [ret |-> "False", file |-> "partial"]
      [] net \in UncaughtByDownload -> [ret |-> "raise", file |-> file]
      [] net # "ok" -> [ret |-> "False", file |-> file]
      [] OTHER ->
            IF truthy(expected_checksum) /\ lower(actual) # lower(expected_checksum.value)
            THEN [ret |-> "False", file |-> "absent"]
            ELSE [ret |-> "True", file |-> "complete"]

\* names an archive can list: a file at the top level, a directory entry,
\* and files under two different top-level directories
EntryNames == { <<"f">>, <<"a", "/">>, <<"a", "/", "x">>, <<"b", "/", "y">> }

\* zipfile.ZipFile(zip_path): a valid archive with its namelist, or BadZipFile
Archives ==
    { [valid |-> TRUE, namelist |-> n] : n \in SUBSET EntryNames } \cup
    { [valid |-> FALSE, namelist |-> {}] }

ExtractallOutcomes == {"ok", "PermissionError", "IOError"}

\* name.split('/'): the number of parts and the first part
RECURSIVE count_slashes(_)
count_slashes(name) ==
    IF name = <<>> THEN 0
    ELSE (IF Head(name) = "/" THEN 1 ELSE 0) + count_slashes(Tail(name))

RECURSIVE first_part(_)
first_part(name) ==
    IF name = <<>> \/ Head(name) = "/" THEN <<>>
    ELSE <<Head(name)>> \o first_part(Tail(name))

num_parts(name) == count_slashes(name) + 1

\* lines 166-170: the first part of every name that has more than one part
root_dirs(namelist) ==
    { first_part(name) : name \in { m \in namelist : num_parts(m) > 1 } }

\* potential_dir.is_dir() after extractall: something was extracted under it
is_dir(namelist, dir) ==
    \E name \in namelist : num_parts(name) > 1 /\ first_part(name) = dir

\* lines 178-182: the extracted directory, or None
extracted_path(namelist) ==
    IF Cardinality(root_dirs(namelist)) = 1
    THEN LET potential_dir == CHOOSE d \in root_dirs(namelist) : TRUE
         IN IF is_dir(namelist, potential_dir) THEN potential_dir ELSE "None"
    ELSE "None"

DownloadInit ==
    /\ PipelineIdle
    /\ FnIdle
    /\ RmIdle
    /\ InstIdle
    /\ MoreIdle
    /\ dl_args \in [expected_checksum : ExpectedChecksums, cleanup_zip : BOOLEAN]
    /\ dl_zip \in {"absent", "stale"}
    /\ dl_pc = "start"
    /\ dl_body = NoBody
    /\ dl_archive = NoArchive
    /\ dl_ret = NoResult
    /\ dl_kind = "none"
    /\ dl_prev = NoCall

\* lines 150-155: download_file(url, zip_path, expected_checksum), and
\* "return False, None" when it fails
DownloadFile ==
    /\ dl_pc = "start"
    /\ \E net \in NetOutcomes, actual \in HexDigests :
         LET r == download_file(net, actual, dl_args.expected_checksum, dl_zip)
         IN /\ dl_body' = [net |-> net, actual |-> actual, ret |-> r.ret]
            /\ dl_zip' = r.file
            /\ IF r.ret = "True"
               THEN /\ dl_pc' = "downloaded"
                    /\ UNCHANGED <<dl_ret, dl_kind>>
               ELSE /\ dl_pc' = "done"
                    /\ dl_ret' = [success |-> "False", extracted |-> "None"]
                    /\ dl_kind' = IF net = "ok" THEN "checksum" ELSE "download"
    /\ UNCHANGED <<pipelineVars, fnVars, moreVars, rmVars, instVars, dl_args, dl_archive, dl_prev>>

\* lines 158-196: open the archive, extract it, remove the zip, report
Extract ==
    /\ dl_pc = "downloaded"
    /\ \E archive \in Archives, out \in ExtractallOutcomes :
         /\ dl_archive' = [valid |-> archive.valid, namelist |-> archive.namelist,
                           extractall |-> IF archive.valid THEN out ELSE "None"]
         /\ CASE ~archive.valid ->
                    /\ dl_zip' = "absent"
                    /\ dl_ret' = [success |-> "False", extracted |-> "None"]
                    /\ dl_kind' = "extraction"
              [] archive.valid /\ out # "ok" ->
                    /\ dl_zip' = dl_zip
                    /\ dl_ret' = [success |-> "False", extracted |-> "None"]
                    /\ dl_kind' = "extraction"
              [] OTHER ->
                    /\ dl_zip' = IF dl_args.cleanup_zip THEN "absent" ELSE dl_zip
                    /\ dl_ret' = [success |-> "True",
                                  extracted |-> extracted_path(archive.namelist)]
                    /\ dl_kind' = "ok"
    /\ dl_pc' = "done"
    /\ UNCHANGED <<pipelineVars, fnVars, moreVars, rmVars, instVars, dl_args, dl_body, dl_prev>>

\* the caller calls download_and_extract once more
CallAgain ==
    /\ dl_pc = "done"
    /\ dl_prev = NoCall
    /\ dl_prev' = [kind |-> dl_kind, ret |-> dl_ret]
    /\ dl_args' \in [expected_checksum : ExpectedChecksums, cleanup_zip : BOOLEAN]
    /\ dl_pc' = "start"
    /\ dl_body' = NoBody
    /\ dl_archive' = NoArchive
    /\ dl_ret' = NoResult
    /\ dl_kind' = "none"
    /\ UNCHANGED <<pipelineVars, fnVars, moreVars, rmVars, instVars, dl_zip>>

DownloadNext ==
    \/ DownloadFile
    \/ Extract
    \/ CallAgain

SpecDownload == DownloadInit /\ [][DownloadNext]_vars

(***************************************************************************)
(* The installers' install() methods, called one after another in one run  *)
(* over the same tools directory.                                          *)
(***************************************************************************)
MaxCalls == 2

\* constants.DOWNLOAD_CHECKSUMS: only Git and Node.js have an entry
DOWNLOAD_CHECKSUMS_GitOnly ==
    [t \in {"git"} |-> [i \in 1..DigestLen |-> "a"]]

DOWNLOAD_CHECKSUMS ==
    [t \in {"git", "nodejs"} |->
        [i \in 1..DigestLen |-> IF t = "git" \/ i > 1 THEN "a" ELSE "1"]]

\* DOWNLOAD_CHECKSUMS.get(tool, {}).get(version)
expected_checksum(tool) ==
    IF tool \in DOMAIN DOWNLOAD_CHECKSUMS
    THEN [given |-> TRUE, value |-> DOWNLOAD_CHECKSUMS[tool]]
    ELSE [given |-> FALSE, value |-> <<>>]

\* download_file called with no expected_checksum argument
None == [given |-> FALSE, value |-> <<>>]

\* the values detect_version can return, and the version install() downloads
JavaVersions == {"17", "11", "1.8"}

download_version(version) == IF version \in {"17", "11"} THEN version ELSE "17"

java_dir(version) == IF download_version(version) = "11" THEN "jdk-11" ELSE "jdk-17"

\* the command each tool directory provides once it is on PATH
command(dir) ==
    CASE dir = "git" -> "git"
      [] dir \in {"jdk-17", "jdk-11"} -> "java"
      [] dir = "maven" -> "mvn"
      [] OTHER -> "node"

\* is_installed(): "<command> --version" runs and exits with 0
is_installed(cmd) ==
    \/ cmd \in system
    \/ \E d \in wired : command(d) = cmd /\ tools_dir[d] = "full"

\* what one download meets: the request, the digest of the body, the
\* archive (a zip file or not), and the top-level directory it holds
InstallNet == {"ok", "ConnectionError", "IOError"}
ZipOutcomes == {"ok", "BadZipFile"}
RootNames == {"expected", "other"}

\* one call of download_file made by an installer, as the run sees it
Download(dir, expected, r, opened) ==
    [dir |-> dir,
     supplied |-> truthy(expected),
     compared |-> truthy(expected) /\ r.ret = "True",
     extracted |-> r.ret = "True" /\ opened]

\* install() returns (or raises): record the call
Called(rec, dirs) ==
    /\ last_install' = rec
    /\ ncalls' = ncalls + 1
    /\ returned_true' = IF rec.ret = "True" THEN returned_true \cup dirs ELSE returned_true

Again(class, version, pom) ==
    /\ last_install.installer = class
    /\ last_install.version = version
    /\ last_install.pom = pom

CallRecord(class, version, pom, cmd, present, downloads, wiring, result) ==
    [installer |-> class, version |-> version, pom |-> pom,
     probe |-> is_installed(cmd), present_before |-> present,
     again |-> Again(class, version, pom), true_before |-> returned_true,
     downloads |-> downloads, wiring |-> wiring, ret |-> result]

InstallInit ==
    /\ PipelineIdle
    /\ FnIdle
    /\ RmIdle
    /\ DlIdle
    /\ tools_dir = [d \in ToolDirs |-> "absent"]
    /\ wired = {}
    /\ system \in SUBSET {"java", "node", "python"}
    /\ ncalls = 0
    /\ returned_true = {}
    /\ last_install = NoInstall

\* a variant without the "if git_dir.exists()" short cut
GitInstall_NoDirCheck ==
    /\ ncalls < MaxCalls
    /\ \E net \in InstallNet, actual \in HexDigests, zip \in ZipOutcomes :
         LET expected == expected_checksum("git")
             r == download_file(net, actual, expected, "absent")
             ok == r.ret = "True" /\ zip = "ok"
         IN /\ tools_dir' = [tools_dir EXCEPT !["git"] =
                                IF ok THEN "full"
                                ELSE IF net = "ConnectionError" THEN @ ELSE "partial"]
            /\ wired' = IF ok THEN wired \cup {"git"} ELSE wired
            /\ Called(CallRecord("GitInstaller", "None", FALSE, "git",
                                 tools_dir["git"] # "absent",
                                 {Download("git", expected, r, zip = "ok")}, ok,
                                 IF ok THEN "True" ELSE "False"),
                      {"git"})
    /\ UNCHANGED <<pipelineVars, fnVars, moreVars, rmVars, dlVars, system>>

\* GitInstaller.install
GitInstall ==
    /\ ncalls < MaxCalls
    /\ IF tools_dir["git"] # "absent"
       THEN /\ wired' = wired \cup {"git"}
            /\ UNCHANGED tools_dir
            /\ Called(CallRecord("GitInstaller", "None", FALSE, "git", TRUE, {}, TRUE, "True"),
                      {"git"})
       ELSE \E net \in InstallNet, actual \in HexDigests, zip \in ZipOutcomes :
              LET expected == expected_checksum("git")
                  r == download_file(net, actual, expected, "absent")
                  ok == r.ret = "True" /\ zip = "ok"
              IN /\ tools_dir' = [tools_dir EXCEPT !["git"] =
                                     IF ok THEN "full"
                                     ELSE IF net = "ConnectionError" THEN "absent" ELSE "partial"]
                 /\ wired' = IF ok THEN wired \cup {"git"} ELSE wired
                 /\ Called(CallRecord("GitInstaller", "None", FALSE, "git", FALSE,
                                      {Download("git", expected, r, zip = "ok")}, ok,
                                      IF ok THEN "True" ELSE "False"),
                           {"git"})
    /\ UNCHANGED <<pipelineVars, fnVars, moreVars, rmVars, dlVars, system>>

\* NodeJSInstaller.install
NodeInstall ==
    /\ ncalls < MaxCalls
    /\ LET present == tools_dir["nodejs"] # "absent"
       IN IF is_installed("node")
          THEN /\ UNCHANGED <<tools_dir, wired>>
               /\ Called(CallRecord("NodeJSInstaller", "None", FALSE, "node", present,
                                    {}, FALSE, "True"),
                         {"nodejs"})
          ELSE IF present
          THEN /\ wired' = wired \cup {"nodejs"}
               /\ UNCHANGED tools_dir
               /\ Called(CallRecord("NodeJSInstaller", "None", FALSE, "node", TRUE,
                                    {}, TRUE, "True"),
                         {"nodejs"})
          ELSE \E net \in InstallNet, actual \in HexDigests, zip \in ZipOutcomes,
                  root \in RootNames, rename \in {"ok", "OSError"} :
                 LET expected == expected_checksum("nodejs")
                     r == download_file(net, actual, expected, "absent")
                     ok == r.ret = "True" /\ zip = "ok"
                     renamed == ok /\ root = "expected" /\ rename = "ok"
                 IN /\ tools_dir' = [tools_dir EXCEPT !["nodejs"] =
                                        IF renamed THEN "full" ELSE "absent"]
                    /\ wired' = IF ok THEN wired \cup {"nodejs"} ELSE wired
                    /\ Called(CallRecord("NodeJSInstaller", "None", FALSE, "node", FALSE,
                                         {Download("nodejs", expected, r, zip = "ok")}, ok,
                                         IF ok THEN "True" ELSE "False"),
                              {"nodejs"})
    /\ UNCHANGED <<pipelineVars, fnVars, moreVars, rmVars, dlVars, system>>

\* PythonInstaller.install: nothing is downloaded; True iff python runs
PythonInstall ==
    /\ ncalls < MaxCalls
    /\ Called(CallRecord("PythonInstaller", "None", FALSE, "python", FALSE, {}, FALSE,
                         IF is_installed("python") THEN "True" ELSE "False"),
              {})
    /\ UNCHANGED <<pipelineVars, fnVars, moreVars, rmVars, dlVars, tools_dir, wired, system>>

\* _install_maven: mirrors is the number of mirrors that fail before one
\* answers (all of MAVEN_URLS when none does); found says whether a
\* directory whose name starts with "apache-maven" is there to rename
MavenMirrors == 3

_install_maven(present, mirrors, zip, found) ==
    IF present
    THEN [ret |-> "True", dir |-> "full", wiring |-> TRUE, downloads |-> {}]
    ELSE LET missed == Download("maven", None, [ret |-> "False"], FALSE)
             fetched == Download("maven", None, [ret |-> "True"], zip = "ok")
             tried == IF mirrors > 0 THEN {missed} ELSE {}
         IN IF mirrors >= MavenMirrors
            THEN [ret |-> "False", dir |-> "absent", wiring |-> FALSE, downloads |-> tried]
            ELSE IF zip = "ok" /\ found
            THEN [ret |-> "True", dir |-> "full", wiring |-> TRUE,
                  downloads |-> tried \cup {fetched}]
            ELSE [ret |-> "False", dir |-> "absent", wiring |-> FALSE,
                  downloads |-> tried \cup {fetched}]

\* JavaInstaller.install for a project whose detect_version() gives version
\* and that has a pom.xml or not
JavaInstall ==
    /\ ncalls < MaxCalls
    /\ \E version \in JavaVersions, pom \in BOOLEAN :
       \E net \in IF tools_dir[java_dir(version)] = "absent" THEN InstallNet ELSE {"ok"},
          zip \in IF tools_dir[java_dir(version)] = "absent" THEN ZipOutcomes ELSE {"ok"},
          root \in IF tools_dir[java_dir(version)] = "absent" THEN RootNames ELSE {"expected"},
          mirrors \in IF pom /\ tools_dir["maven"] = "absent" THEN 0..MavenMirrors ELSE {0},
          mzip \in IF pom /\ tools_dir["maven"] = "absent" THEN ZipOutcomes ELSE {"ok"},
          found \in IF pom /\ tools_dir["maven"] = "absent" THEN BOOLEAN ELSE {TRUE} :
         LET jdk == java_dir(version)
             jdk_present == tools_dir[jdk] # "absent"
             present == jdk_present /\ (pom => tools_dir["maven"] # "absent")
             r == download_file(net, <<>>, None, "absent")
             jdk_dl == IF jdk_present THEN {}
                       ELSE {Download(jdk, None, r, zip = "ok")}
             dirs == {jdk} \cup (IF pom THEN {"maven"} ELSE {})
             mvn == _install_maven(tools_dir["maven"] # "absent", mirrors, mzip, found)
         IN IF ~jdk_present /\ r.ret = "False"
            THEN /\ UNCHANGED <<tools_dir, wired>>
                 /\ Called(CallRecord("JavaInstaller", version, pom, "java", present,
                                      jdk_dl, FALSE, "False"), dirs)
            ELSE IF ~jdk_present /\ zip # "ok"
            THEN /\ UNCHANGED <<tools_dir, wired>>
                 /\ Called(CallRecord("JavaInstaller", version, pom, "java", present,
                                      jdk_dl, FALSE, "raise"), dirs)
            ELSE LET extracted == IF ~jdk_present /\ root = "expected"
                                  THEN [tools_dir EXCEPT ![jdk] = "full"]
                                  ELSE tools_dir
                 IN IF ~pom
                    THEN /\ tools_dir' = extracted
                         /\ wired' = wired \cup {jdk}
                         /\ Called(CallRecord("JavaInstaller", version, pom, "java", present,
                                              jdk_dl, TRUE, "True"), dirs)
                    ELSE /\ tools_dir' = [extracted EXCEPT !["maven"] =
                                             IF mvn.dir = "full" THEN "full" ELSE @]
                         /\ wired' = wired \cup {jdk} \cup
                                     (IF mvn.wiring THEN {"maven"} ELSE {})
                         /\ Called(CallRecord("JavaInstaller", version, pom, "java", present,
                                              jdk_dl \cup mvn.downloads, TRUE, mvn.ret), dirs)
    /\ UNCHANGED <<pipelineVars, fnVars, moreVars, rmVars, dlVars, system>>

InstallNext ==
    \/ JavaInstall
    \/ GitInstall
    \/ NodeInstall
    \/ PythonInstall

SpecInstall == InstallInit /\ [][InstallNext]_vars

(***************************************************************************)
(* TechnologyDetector.  A repository is a directory that exists or not,    *)
(* whose listing succeeds or raises, and whose root files are absent,      *)
(* plain, contain a Spring indicator ("spring"), or cannot be read.        *)
(***************************************************************************)
BuildFiles == {"pom.xml", "build.gradle", "build.gradle.kts", "gradlew"}

RepoFiles == BuildFiles \cup
             {"gradlew.bat", "settings.gradle", "requirements.txt", "package.json"}

\* TechnologyDetector.DETECTION_PATTERNS
DETECTION_PATTERNS ==
    [t \in Technology \ {"UNKNOWN"} |->
        CASE t = "JAVA_SPRINGBOOT" ->
                [files |-> {"pom.xml", "build.gradle", "build.gradle.kts", "gradlew"},
                 indicators |-> {"spring-boot", "springframework", "org.springframework"}]
          [] t = "JAVA_MAVEN" ->
                [files |-> {"pom.xml"}, indicators |-> {}]
          [] t = "JAVA_GRADLE" ->
                [files |-> {"build.gradle", "build.gradle.kts", "gradlew", "gradlew.bat"},
                 indicators |-> {}]
          [] t = "PYTHON" ->
                [files |-> {"requirements.txt", "setup.py", "pyproject.toml", "Pipfile",
                            "setup.cfg"},
                 indicators |-> {}]
          [] OTHER ->
                [files |-> {"package.json", "package-lock.json", "yarn.lock",
                            "pnpm-lock.yaml"},
                 indicators |-> {}]]

\* class BuildTool(Enum)
BuildTool == {"MAVEN", "GRADLE", "UNKNOWN"}

Listings == {"ok", "PermissionError", "OSError"}

FileStates ==
    { f \in [RepoFiles -> {"absent", "plain", "spring", "unreadable"}] :
        \A x \in RepoFiles \ BuildFiles : f[x] \in {"absent", "plain"} }

Repos ==
    { [exists |-> TRUE, listing |-> l, files |-> f] : l \in Listings, f \in FileStates }
    \cup { [exists |-> FALSE, listing |-> "OSError",
            files |-> [x \in RepoFiles |-> "absent"]] }

\* a variant that gives up only on PermissionError
_get_root_files_PermissionOnly(repo) ==
    IF repo.listing # "PermissionError"
    THEN { x \in RepoFiles : repo.files[x] # "absent" }
    ELSE {}

\* _get_root_files: the names in the root, [] when iterdir raises
_get_root_files(repo) ==
    IF repo.listing = "ok"
    THEN { x \in RepoFiles : repo.files[x] # "absent" }
    ELSE {}

\* _check_indicators: the file can be read and holds one of the indicators
_check_indicators(repo, file, indicators) ==
    indicators # {} /\ repo.files[file] = "spring"

_is_spring_boot_project(repo, files) ==
    LET pattern == DETECTION_PATTERNS["JAVA_SPRINGBOOT"]
    IN \E file \in pattern.files :
         file \in files /\ _check_indicators(repo, file, pattern.indicators)

_is_maven_project(repo, files) == "pom.xml" \in files

_is_gradle_project(repo, files) ==
    {"build.gradle", "build.gradle.kts", "settings.gradle", "settings.gradle.kts"}
        \cap files # {}

_matches_technology(repo, files, tech) ==
    LET pattern == DETECTION_PATTERNS[tech]
    IN \E file \in pattern.files :
         /\ file \in files
         /\ pattern.indicators # {} => _check_indicators(repo, file, pattern.indicators)

\* TechnologyDetector.detect
detect(repo) ==
    IF ~repo.exists THEN "UNKNOWN"
    ELSE LET files_in_repo == _get_root_files(repo)
         IN CASE _is_spring_boot_project(repo, files_in_repo) -> "JAVA_SPRINGBOOT"
              [] _is_maven_project(repo, files_in_repo) -> "JAVA_SPRINGBOOT"
              [] _is_gradle_project(repo, files_in_repo) -> "JAVA_SPRINGBOOT"
              [] _matches_technology(repo, files_in_repo, "PYTHON") -> "PYTHON"
              [] _matches_technology(repo, files_in_repo, "NODEJS") -> "NODEJS"
              [] OTHER -> "UNKNOWN"

\* TechnologyDetector.detect_build_tool
detect_build_tool(repo) ==
    LET files_in_repo == _get_root_files(repo)
        gradle_files == {"build.gradle", "build.gradle.kts", "gradlew", "gradlew.bat",
                         "settings.gradle", "settings.gradle.kts"}
    IN CASE gradle_files \cap files_in_repo # {} -> "GRADLE"
         [] "pom.xml" \in files_in_repo -> "MAVEN"
         [] OTHER -> "UNKNOWN"

DetectorInit ==
    /\ PipelineIdle
    /\ RmIdle
    /\ DlIdle
    /\ InstIdle
    /\ MoreIdle
    /\ UrlIdle
    /\ ProxyIdle
    /\ EnvIdle
    /\ MavenIdle
    /\ \E repo \in Repos :
         detector = [state |-> "given", repo |-> repo,
                     technology |-> "None", build_tool |-> "None"]

DetectCall ==
    /\ detector.state = "given"
    /\ detector.technology = "None"
    /\ detector' = [detector EXCEPT !.technology = detect(detector.repo)]
    /\ UNCHANGED <<pipelineVars, moreVars, rmVars, dlVars, instVars, urlcall, proxy, envfile, maven>>

DetectBuildToolCall ==
    /\ detector.state = "given"
    /\ detector.build_tool = "None"
    /\ detector' = [detector EXCEPT !.build_tool = detect_build_tool(detector.repo)]
    /\ UNCHANGED <<pipelineVars, moreVars, rmVars, dlVars, instVars, urlcall, proxy, envfile, maven>>

DetectorNext ==
    \/ DetectCall
    \/ DetectBuildToolCall

SpecDetector == DetectorInit /\ [][DetectorNext]_vars

(***************************************************************************)
(* JavaInstaller._install_maven, one mirror at a time.  outcomes[i] is     *)
(* what the request to the i-th mirror meets.                              *)
(***************************************************************************)
MAVEN_URLS == <<"dlcdn.apache.org", "archive.apache.org", "mirrors.estointernet.in">>

MavenInit ==
    /\ PipelineIdle
    /\ RmIdle
    /\ DlIdle
    /\ InstIdle
    /\ MoreIdle
    /\ DetectorIdle
    /\ UrlIdle
    /\ ProxyIdle
    /\ EnvIdle
    /\ \E present \in BOOLEAN, outcomes \in [1..Len(MAVEN_URLS) -> InstallNet],
          zip \in ZipOutcomes, found \in BOOLEAN :
         maven = [state |-> "called", present |-> present, outcomes |-> outcomes,
                  zip |-> zip, found |-> found, i |-> 1, tried |-> <<>>,
                  download_success |-> FALSE, exit |-> "None", ret |-> "None"]

\* if not maven_dir.exists(): ... else straight to the wiring
MavenDirCheck ==
    /\ maven.state = "called"
    /\ maven' = IF maven.present
                THEN [maven EXCEPT !.state = "returned", !.exit = "present",
                                   !.ret = _install_maven(TRUE, 0, maven.zip, maven.found).ret]
                ELSE [maven EXCEPT !.state = "loop"]
    /\ UNCHANGED <<pipelineVars, moreVars, rmVars, dlVars, instVars, detector, urlcall, proxy, envfile>>

\* a loop body that goes on to the next mirror after a download succeeded
TryMirror_NoBreak ==
    /\ maven.state = "loop"
    /\ LET r == download_file(maven.outcomes[maven.i], <<>>, None, "absent")
           attempted == Append(maven.tried, MAVEN_URLS[maven.i])
           success == maven.download_success \/ r.ret = "True"
       IN maven' = IF maven.i = Len(MAVEN_URLS)
                   THEN [maven EXCEPT !.state = "after_loop", !.tried = attempted,
                                      !.download_success = success]
                   ELSE [maven EXCEPT !.i = maven.i + 1, !.tried = attempted,
                                      !.download_success = success]
    /\ UNCHANGED <<pipelineVars, moreVars, rmVars, dlVars, instVars, detector, urlcall, proxy, envfile>>

\* for url in self.MAVEN_URLS: if self.download_file(url, zip_path): break
TryMirror ==
    /\ maven.state = "loop"
    /\ LET r == download_file(maven.outcomes[maven.i], <<>>, None, "absent")
           attempted == Append(maven.tried, MAVEN_URLS[maven.i])
       IN maven' = IF r.ret = "True"
                   THEN [maven EXCEPT !.state = "after_loop", !.tried = attempted,
                                      !.download_success = TRUE]
                   ELSE IF maven.i = Len(MAVEN_URLS)
                   THEN [maven EXCEPT !.state = "after_loop", !.tried = attempted]
                   ELSE [maven EXCEPT !.i = maven.i + 1, !.tried = attempted]
    /\ UNCHANGED <<pipelineVars, moreVars, rmVars, dlVars, instVars, detector, urlcall, proxy, envfile>>

\* if not download_success: return False; otherwise extract, rename, wire
MavenAfterLoop ==
    /\ maven.state = "after_loop"
    /\ maven' = IF ~maven.download_success
                THEN [maven EXCEPT !.state = "returned", !.exit = "download",
                                   !.ret = "False"]
                ELSE [maven EXCEPT
                        !.state = "returned", !.exit = "extract",
                        !.ret = _install_maven(FALSE, Len(maven.tried) - 1,
                                               maven.zip, maven.found).ret]
    /\ UNCHANGED <<pipelineVars, moreVars, rmVars, dlVars, instVars, detector, urlcall, proxy, envfile>>

MavenNext ==
    \/ MavenDirCheck
    \/ TryMirror
    \/ MavenAfterLoop

SpecMaven == MavenInit /\ [][MavenNext]_vars

(***************************************************************************)
(* RepositoryManager.validate_repo_url and get_repo_name on their own.     *)
(* The URL is drawn from a wider set than a run is given: any of the       *)
(* schemes, a netloc with or without userinfo and port, any path.  The     *)
(* string handed to get_repo_name is the URL written out, with nothing, a  *)
(* "/" or ".git" appended.                                                 *)
(***************************************************************************)
Schemes == ALLOWED_URL_SCHEMES \cup {"ftp"}

Userinfos == { <<>>, <<"u", "@">>, <<"u", ":", "p", "@">>,
               <<"u", "s", "e", "r", ":", "p", "@">> }

Hosts == { <<>>, <<"g", "h">>, GitHub }

Ports == { <<>>, <<":", "8", "0">> }

Netlocs == { u \o h \o p : u \in Userinfos, h \in Hosts, p \in Ports }

Paths == { <<>>,
           <<Seg("user", FALSE), Seg("a", FALSE)>>,
           <<Seg("user", FALSE), Seg("a", TRUE)>>,
           <<Seg("a", FALSE)>> }

AnyURLs == { Url(scheme, netloc, segs, slash, dangerous) :
               scheme \in Schemes, netloc \in Netlocs, segs \in Paths,
               slash \in BOOLEAN, dangerous \in BOOLEAN }

DotGit == <<".", "g", "i", "t">>

Appended == { <<>>, <<"/">>, DotGit }

\* the characters of a scheme and of a path segment
Chars(word) ==
    CASE word = "http" -> <<"h", "t", "t", "p">>
      [] word = "https" -> <<"h", "t", "t", "p", "s">>
      [] word = "git" -> <<"g", "i", "t">>
      [] word = "ftp" -> <<"f", "t", "p">>
      [] word = "user" -> <<"u", "s", "e", "r">>
      [] OTHER -> <<word>>

RECURSIVE path_string(_)
path_string(segs) ==
    IF segs = <<>> THEN <<>>
    ELSE <<"/">> \o Chars(Head(segs).stem)
         \o (IF Head(segs).git THEN DotGit ELSE <<>>)
         \o path_string(Tail(segs))

\* the URL as the string the user typed
url_string(url) ==
    Chars(url.scheme) \o <<":", "/", "/">> \o url.netloc \o path_string(url.segs)
    \o (IF url.slash THEN <<"/">> ELSE <<>>)

\* str.rstrip('/')
RECURSIVE rstrip_slash(_)
rstrip_slash(str) ==
    IF str # <<>> /\ str[Len(str)] = "/"
    THEN rstrip_slash(SubSeq(str, 1, Len(str) - 1))
    ELSE str

\* str.endswith(suffix)
endswith(str, suffix) ==
    /\ Len(str) >= Len(suffix)
    /\ SubSeq(str, Len(str) - Len(suffix) + 1, Len(str)) = suffix

\* get_repo_name that leaves a ".git" suffix in place
get_repo_name_of_KeepsGit(repo_url) == split_last(rstrip_slash(repo_url), "/")

\* RepositoryManager.get_repo_name on the string it is given:
\* name = repo_url.rstrip('/').split('/')[-1], minus a trailing ".git"
get_repo_name_of(repo_url) ==
    LET name == split_last(rstrip_slash(repo_url), "/")
    IN IF endswith(name, DotGit) THEN SubSeq(name, 1, Len(name) - 4) ELSE name

UrlInit ==
    /\ PipelineIdle
    /\ RmIdle
    /\ DlIdle
    /\ InstIdle
    /\ MoreIdle
    /\ DetectorIdle
    /\ ProxyIdle
    /\ EnvIdle
    /\ MavenIdle
    /\ \E url \in AnyURLs, more \in Appended :
         urlcall = [state |-> "given", url |-> url, appended |-> more,
                    valid |-> "None", name |-> "None", name_appended |-> "None"]

\* validate_repo_url(url): returns True or raises InvalidURLError
ValidateRepoUrl ==
    /\ urlcall.state = "given"
    /\ urlcall.valid = "None"
    /\ urlcall' = [urlcall EXCEPT
                     !.valid = IF validate_repo_url(urlcall.url)
                               THEN "True" ELSE "InvalidURLError"]
    /\ UNCHANGED <<pipelineVars, moreVars, rmVars, dlVars, instVars, detector, proxy, envfile, maven>>

\* get_repo_name(url)
GetRepoName ==
    /\ urlcall.state = "given"
    /\ urlcall.name = "None"
    /\ urlcall' = [urlcall EXCEPT !.name = get_repo_name_of(url_string(urlcall.url))]
    /\ UNCHANGED <<pipelineVars, moreVars, rmVars, dlVars, instVars, detector, proxy, envfile, maven>>

\* get_repo_name(url + "/"), get_repo_name(url + ".git")
GetRepoNameAppended ==
    /\ urlcall.state = "given"
    /\ urlcall.name_appended = "None"
    /\ urlcall' = [urlcall EXCEPT
                     !.name_appended =
                        get_repo_name_of(url_string(urlcall.url) \o urlcall.appended)]
    /\ UNCHANGED <<pipelineVars, moreVars, rmVars, dlVars, instVars, detector, proxy, envfile, maven>>

UrlNext ==
    \/ ValidateRepoUrl
    \/ GetRepoName
    \/ GetRepoNameAppended

SpecUrl == UrlInit /\ [][UrlNext]_vars

(***************************************************************************)
(* ProxyManager.  An argument of set_proxy is None or a string, written    *)
(* as the scheme before "://" (none when the string has no "://") and the  *)
(* characters after it.                                                    *)
(***************************************************************************)
ProxyArg(given, scheme, rest) == [given |-> given, scheme |-> scheme, rest |-> rest]

NoProxy == ProxyArg(FALSE, "", <<>>)

ProxyArgs ==
    { NoProxy,
      ProxyArg(TRUE, "", <<>>),
      ProxyArg(TRUE, "http", <<"p", "x">>),
      ProxyArg(TRUE, "https", <<"p", "x", ":", "8">>),
      ProxyArg(TRUE, "http", <<"p", "x", "/">>),
      ProxyArg(TRUE, "ftp", <<"p", "x">>),
      ProxyArg(TRUE, "", <<"p", "x">>),
      ProxyArg(TRUE, "http", <<>>),
      ProxyArg(TRUE, "http", <<"p">>),
      ProxyArg(TRUE, "http", <<":", "8">>),
      ProxyArg(TRUE, "http", <<"p", "x", " ", "y">>) }

\* "if http_proxy:" is false for None and for the empty string
proxy_given(url) == url.given /\ (url.scheme # "" \/ url.rest # <<>>)

\* ProxyManager.validate_proxy_url: TRUE when it returns, FALSE when it
\* raises InvalidProxyURLError.  PROXY_URL_PATTERN asks for http:// or
\* https://, one character outside [\s/$.?#], one more character and no
\* white space after it; the host part must not be empty or start with ":"
validate_proxy_url(url) ==
    /\ proxy_given(url)
    /\ url.scheme \in {"http", "https"}
    /\ Len(url.rest) >= 2
    /\ url.rest[1] \notin {" ", "/", "$", ".", "?", "#"}
    /\ \A i \in 3..Len(url.rest) : url.rest[i] # " "
    /\ rstrip_slash(url.rest) # <<>>
    /\ url.rest[1] # ":"

ProxyEnvKeys == {"HTTP_PROXY", "http_proxy", "HTTPS_PROXY", "https_proxy"}

\* what a call can change: the two fields and the process environment
ProxySettings(p) == [http_proxy |-> p.http_proxy, https_proxy |-> p.https_proxy,
                     environ |-> p.environ]

ProxyInit ==
    /\ PipelineIdle
    /\ RmIdle
    /\ DlIdle
    /\ InstIdle
    /\ MoreIdle
    /\ DetectorIdle
    /\ UrlIdle
    /\ EnvIdle
    /\ MavenIdle
    /\ proxy = [state |-> "constructed", http_proxy |-> NoProxy, https_proxy |-> NoProxy,
                environ |-> [k \in ProxyEnvKeys |-> NoProxy],
                call |-> "None", http_arg |-> NoProxy, https_arg |-> NoProxy,
                before |-> [http_proxy |-> NoProxy, https_proxy |-> NoProxy,
                            environ |-> [k \in ProxyEnvKeys |-> NoProxy]],
                outcome |-> "None"]

\* ProxyManager.set_proxy(http_proxy, https_proxy)
SetProxy ==
    \E http_arg \in ProxyArgs, https_arg \in ProxyArgs :
      LET http_raises == proxy_given(http_arg) /\ ~validate_proxy_url(http_arg)
          http_set == proxy_given(http_arg) /\ ~http_raises
          https_reached == ~http_raises
          https_raises == https_reached /\ proxy_given(https_arg)
                          /\ ~validate_proxy_url(https_arg)
          https_set == https_reached /\ proxy_given(https_arg) /\ ~https_raises
      IN /\ proxy' =
              [state |-> "called",
               http_proxy |-> IF http_set THEN http_arg ELSE proxy.http_proxy,
               https_proxy |-> IF https_set THEN https_arg ELSE proxy.https_proxy,
               environ |->
                 [k \in ProxyEnvKeys |->
                    CASE k \in {"HTTP_PROXY", "http_proxy"} /\ http_set -> http_arg
                      [] k \in {"HTTPS_PROXY", "https_proxy"} /\ https_set -> https_arg
                      [] OTHER -> proxy.environ[k]],
               call |-> "set_proxy", http_arg |-> http_arg, https_arg |-> https_arg,
               before |-> ProxySettings(proxy),
               outcome |-> IF http_raises \/ https_raises
                           THEN "InvalidProxyURLError" ELSE "returned"]
         /\ UNCHANGED <<pipelineVars, moreVars, rmVars, dlVars, instVars, detector, urlcall, envfile, maven>>

\* ProxyManager.clear_proxy()
ClearProxy ==
    /\ proxy.state = "called"
    /\ proxy' = [state |-> "called", http_proxy |-> NoProxy, https_proxy |-> NoProxy,
                 environ |-> [k \in ProxyEnvKeys |-> NoProxy],
                 call |-> "clear_proxy", http_arg |-> NoProxy, https_arg |-> NoProxy,
                 before |-> ProxySettings(proxy), outcome |-> "returned"]
    /\ UNCHANGED <<pipelineVars, moreVars, rmVars, dlVars, instVars, detector, urlcall, envfile, maven>>

ProxyNext ==
    \/ SetProxy
    \/ ClearProxy

SpecProxy == ProxyInit /\ [][ProxyNext]_vars

(***************************************************************************)
(* EnvironmentManager.  A variable name is a sequence of characters; the   *)
(* .env file is absent or the sequence of names whose KEY=value lines it   *)
(* holds; system_vars are the names given to setx.                         *)
(***************************************************************************)
MaxEnvLines == 2

EnvNames == { <<>>, <<"A">>, <<"_", "1">>, <<"A", "-", "B">>, <<"A", "\n">>,
              <<"A", "\n", "B">> }

\* variables: a dict with up to two keys, in insertion order
EnvDicts == { <<>> } \cup { <<n>> : n \in EnvNames }
            \cup { d \in EnvNames \X EnvNames : d[1] # d[2] }

\* [A-Za-z_] and [A-Za-z0-9_] over the characters in use
NameStart == {"A", "B", "_"}
NameChar == NameStart \cup {"1"}

\* EnvironmentManager.validate_env_var_name: TRUE when it returns, FALSE
\* when it raises.  re.match(ENV_VAR_NAME_PATTERN, name): "$" matches at the
\* end of the string and also just before a newline that ends it
validate_env_var_name(name) ==
    /\ name # <<>>
    /\ LET matched == IF name[Len(name)] = "\n"
                      THEN SubSeq(name, 1, Len(name) - 1) ELSE name
       IN /\ matched # <<>>
          /\ matched[1] \in NameStart
          /\ \A i \in 1..Len(matched) : matched[i] \in NameChar

FileOutcomes == {"ok", "IOError at open", "IOError at write"}

\* subprocess.run(['setx', ...], check=True) and the PowerShell calls of
\* set_system_path: done, or one of the exceptions it can raise
SetxOutcomes == {"ok", "CalledProcessError", "FileNotFoundError", "PermissionError"}

\* the two exceptions append_to_env and set_system_path turn into a warning
CaughtBySetx == {"CalledProcessError", "FileNotFoundError"}

EnvSettings(e) == [file |-> e.file, system_vars |-> e.system_vars]

EnvInit ==
    /\ PipelineIdle
    /\ RmIdle
    /\ DlIdle
    /\ InstIdle
    /\ MoreIdle
    /\ DetectorIdle
    /\ UrlIdle
    /\ ProxyIdle
    /\ MavenIdle
    /\ \E platform \in {"win32", "linux"} :
         envfile = [state |-> "constructed", platform |-> platform,
                    file |-> "absent", system_vars |-> {},
                    call |-> "None", names |-> <<>>,
                    before |-> [file |-> "absent", system_vars |-> {}],
                    outcome |-> "None"]

\* EnvironmentManager.create_env_file(variables)
CreateEnvFile ==
    \E variables \in EnvDicts, io \in FileOutcomes :
      LET all_valid == \A i \in 1..Len(variables) : validate_env_var_name(variables[i])
      IN /\ envfile' =
              [envfile EXCEPT
                 !.state = "called",
                 !.call = "create_env_file",
                 !.names = variables,
                 !.before = EnvSettings(envfile),
                 !.file = CASE ~all_valid -> envfile.file
                            [] io = "ok" -> variables
                            [] io = "IOError at write" -> <<>>
                            [] OTHER -> envfile.file,
                 !.outcome = CASE ~all_valid -> "InvalidEnvironmentVariableError"
                               [] io = "ok" -> "returned"
                               [] OTHER -> "IOError"]
         /\ UNCHANGED <<pipelineVars, moreVars, rmVars, dlVars, instVars, detector, urlcall, proxy, maven>>

\* EnvironmentManager.append_to_env(key, value)
AppendToEnv ==
    /\ envfile.file # "absent" => Len(envfile.file) < MaxEnvLines
    /\ \E key \in EnvNames, io \in FileOutcomes, setx \in SetxOutcomes :
         LET valid == validate_env_var_name(key)
             old == IF envfile.file = "absent" THEN <<>> ELSE envfile.file
         IN /\ envfile' =
                 [envfile EXCEPT
                    !.state = "called",
                    !.call = "append_to_env",
                    !.names = <<key>>,
                    !.before = EnvSettings(envfile),
                    !.file = CASE ~valid -> envfile.file
                               [] io = "ok" -> Append(old, key)
                               [] io = "IOError at write" -> old
                               [] OTHER -> envfile.file,
                    !.system_vars =
                        IF valid /\ envfile.platform = "win32" /\ setx = "ok"
                        THEN envfile.system_vars \cup {key}
                        ELSE envfile.system_vars,
                    !.outcome =
                        CASE ~valid -> "InvalidEnvironmentVariableError"
                          [] envfile.platform = "win32"
                             /\ setx \notin CaughtBySetx \cup {"ok"} -> setx
                          [] OTHER -> "returned"]
            /\ UNCHANGED <<pipelineVars, moreVars, rmVars, dlVars, instVars, detector, urlcall, proxy, maven>>

EnvNext ==
    \/ CreateEnvFile
    \/ AppendToEnv

SpecEnv == EnvInit /\ [][EnvNext]_vars

(***************************************************************************)
(* Calls on an installer object outside a run: run_command, download_file  *)
(* and the configure() of the three project installers.  cfg holds the     *)
(* latest call, what its steps met and how it ended ("True", "False" or    *)
(* "raise").                                                               *)
(***************************************************************************)
\* what subprocess.run can do: exit with a status, or raise
SubprocessOutcomes == {"exit 0", "exit 1", "TimeoutExpired", "FileNotFoundError",
                       "PermissionError", "SubprocessError", "OSError",
                       "UnicodeDecodeError"}

\* the exceptions run_command has an except clause for
CaughtByRunCommand == {"TimeoutExpired", "FileNotFoundError", "PermissionError",
                       "SubprocessError"}

\* BaseInstaller.run_command: (success, output), or the exception it lets through
run_command(out) ==
    CASE out \in {"exit 0", "exit 1"} -> [raised |-> FALSE, success |-> out = "exit 0"]
      [] out \in CaughtByRunCommand -> [raised |-> FALSE, success |-> FALSE]
      [] OTHER -> [raised |-> TRUE, success |-> FALSE]

\* JavaInstaller._run_maven_install: no executable, or subprocess.run inside
\* try ... except Exception
_run_maven_install(executable, out) == executable /\ out = "exit 0"

\* JavaInstaller._run_gradle_build
_run_gradle_build(out) == out = "exit 0"

\* a configuration file written outside any try block
WriteOutcomes == {"ok", "IOError"}

\* the dependency step of a configure(): not reached, succeeded or failed
Step(reached, ok) == IF ~reached THEN "not run" ELSE IF ok THEN "ok" ELSE "failed"

ConfigureCall(class, given, dependency, other_failed, result) ==
    [state |-> "returned", call |-> "configure", installer |-> class, given |-> given,
     dependency |-> dependency, other_failed |-> other_failed, ret |-> result]

CallsInit ==
    /\ PipelineIdle
    /\ RmIdle
    /\ DlIdle
    /\ InstIdle
    /\ DetectorIdle
    /\ UrlIdle
    /\ ProxyIdle
    /\ EnvIdle
    /\ MavenIdle
    /\ envwire = Idle
    /\ worker = Idle
    /\ gitcheck = Idle
    /\ cfg = [state |-> "constructed"]

\* run_command(command)
RunCommand ==
    /\ cfg.state = "constructed"
    /\ \E out \in SubprocessOutcomes :
         cfg' = [state |-> "returned", call |-> "run_command", out |-> out,
                 ret |-> IF run_command(out).raised THEN "raise"
                         ELSE IF run_command(out).success THEN "True" ELSE "False"]
    /\ UNCHANGED <<pipelineVars, rmVars, dlVars, instVars, fnVars, envwire, worker, gitcheck>>

\* download_file(url, destination, expected_checksum)
DownloadFileCall ==
    /\ cfg.state = "constructed"
    /\ \E net \in NetOutcomes \cup UncaughtByDownload, actual \in HexDigests,
          expected \in ExpectedChecksums :
         cfg' = [state |-> "returned", call |-> "download_file", out |-> net,
                 ret |-> download_file(net, actual, expected, "absent").ret]
    /\ UNCHANGED <<pipelineVars, rmVars, dlVars, instVars, fnVars, envwire, worker, gitcheck>>

\* JavaInstaller.configure
JavaConfigure ==
    /\ cfg.state = "constructed"
    /\ \E pom \in BOOLEAN, build_gradle \in BOOLEAN, maven_installed \in BOOLEAN,
          mirrors \in {0, MavenMirrors}, app_props \in BOOLEAN,
          write \in WriteOutcomes, executable \in BOOLEAN,
          mvn \in SubprocessOutcomes, gradle \in SubprocessOutcomes :
         LET maven_available ==
                 pom /\ (maven_installed
                         \/ _install_maven(FALSE, mirrors, "ok", TRUE).ret = "True")
             writes == pom /\ (maven_available \/ ~app_props)
             maven_step == Step(pom /\ maven_available, _run_maven_install(executable, mvn))
             gradle_step == Step(build_gradle, _run_gradle_build(gradle))
             dependency == IF "failed" \in {maven_step, gradle_step} THEN "failed"
                           ELSE IF "ok" \in {maven_step, gradle_step} THEN "ok"
                           ELSE "not run"
             other_failed == writes /\ write = "IOError"
         IN cfg' = ConfigureCall("JavaInstaller",
                     [pom |-> pom, build_gradle |-> build_gradle,
                      maven |-> maven_available, app_props |-> app_props,
                      write |-> write, executable |-> executable,
                      mvn |-> mvn, gradle |-> gradle],
                     dependency, other_failed,
                     IF other_failed THEN "raise" ELSE "True")
    /\ UNCHANGED <<pipelineVars, rmVars, dlVars, instVars, fnVars, envwire, worker, gitcheck>>

\* NodeJSInstaller.configure
NodeConfigure ==
    /\ cfg.state = "constructed"
    /\ \E npm_installed \in BOOLEAN, package_json \in BOOLEAN,
          npm \in SubprocessOutcomes, env_file \in BOOLEAN, write \in WriteOutcomes :
         LET r == run_command(npm)
             reached == npm_installed /\ package_json
             dependency == Step(reached, r.success)
             env_written == /\ npm_installed
                            /\ reached => r.success
                            /\ ~env_file
             other_failed == ~npm_installed \/ (env_written /\ write = "IOError")
         IN cfg' = ConfigureCall("NodeJSInstaller",
                     [npm_installed |-> npm_installed, package_json |-> package_json,
                      npm |-> npm, env_file |-> env_file, write |-> write],
                     dependency, other_failed,
                     CASE ~npm_installed -> "False"
                       [] reached /\ r.raised -> "raise"
                       [] reached /\ ~r.success -> "True"
                       [] env_written /\ write = "IOError" -> "raise"
                       [] OTHER -> "True")
    /\ UNCHANGED <<pipelineVars, rmVars, dlVars, instVars, fnVars, envwire, worker, gitcheck>>

\* PythonInstaller.configure
PythonConfigure ==
    /\ cfg.state = "constructed"
    /\ \E pip_installed \in BOOLEAN,
          ensurepip \in {"exit 0", "CalledProcessError", "FileNotFoundError"},
          venv_exists \in BOOLEAN, venv \in SubprocessOutcomes,
          requirements \in BOOLEAN, pip \in SubprocessOutcomes,
          env_file \in BOOLEAN, write \in WriteOutcomes :
         LET pip_ok == pip_installed \/ ensurepip = "exit 0"
             v == run_command(venv)
             venv_ok == venv_exists \/ v.success
             r == run_command(pip)
             reached == pip_ok /\ venv_ok /\ requirements
             dependency == Step(reached, r.success)
             env_written == /\ pip_ok
                            /\ venv_ok
                            /\ reached => r.success
                            /\ ~env_file
             other_failed == ~pip_ok \/ ~venv_ok \/ (env_written /\ write = "IOError")
         IN cfg' = ConfigureCall("PythonInstaller",
                     [pip |-> pip_ok, venv_exists |-> venv_exists, venv |-> venv,
                      requirements |-> requirements, pip_install |-> pip,
                      env_file |-> env_file, write |-> write],
                     dependency, other_failed,
                     CASE ~pip_ok -> "False"
                       [] ~venv_exists /\ v.raised -> "raise"
                       [] ~venv_ok -> "False"
                       [] reached /\ r.raised -> "raise"
                       [] reached /\ ~r.success -> "True"
                       [] env_written /\ write = "IOError" -> "raise"
                       [] OTHER -> "True")
    /\ UNCHANGED <<pipelineVars, rmVars, dlVars, instVars, fnVars, envwire, worker, gitcheck>>

CallsNext ==
    \/ RunCommand
    \/ DownloadFileCall
    \/ JavaConfigure
    \/ NodeConfigure
    \/ PythonConfigure

SpecCalls == CallsInit /\ [][CallsNext]_vars

(***************************************************************************)
(* Environment wiring at the end of install(): the process variables       *)
(* (os.environ) and the persistent ones (.env, setx, the user PATH).       *)
(***************************************************************************)
\* EnvironmentManager.append_to_env for a valid name: what got written and
\* whether an exception leaves the call
append_to_env(platform, io, setx) ==
    [dotenv |-> io = "ok",
     system_var |-> platform = "win32" /\ setx = "ok",
     raised |-> platform = "win32" /\ setx \notin CaughtBySetx \cup {"ok"}]

\* EnvironmentManager.set_system_path: the process PATH is updated first;
\* on win32 the user PATH is read and, when the path is not in it, written
set_system_path(platform, in_user_path, get, set) ==
    [process_path |-> TRUE,
     user_path |-> platform = "win32" /\ get = "ok" /\ (in_user_path \/ set = "ok"),
     raised |-> /\ platform = "win32"
                /\ \/ get \notin CaughtBySetx \cup {"ok"}
                   \/ get = "ok" /\ ~in_user_path /\ set \notin CaughtBySetx \cup {"ok"}]

\* what one wiring leaves behind and how install() ends
Wiring(class, given, process_home, process_path, persisted, raised) ==
    [state |-> "returned", installer |-> class, given |-> given,
     process_home |-> process_home, process_path |-> process_path,
     persisted |-> persisted, ret |-> IF raised THEN "raise" ELSE "True"]

WireInit ==
    /\ PipelineIdle
    /\ RmIdle
    /\ DlIdle
    /\ InstIdle
    /\ DetectorIdle
    /\ UrlIdle
    /\ ProxyIdle
    /\ EnvIdle
    /\ MavenIdle
    /\ cfg = Idle
    /\ worker = Idle
    /\ gitcheck = Idle
    /\ \E platform \in {"win32", "linux"} :
         envwire = [state |-> "extracted", platform |-> platform]

\* BaseInstaller.setup_tool_environment, the last step of GitInstaller.install
\* and NodeJSInstaller.install: process variables first, then the persistent ones
SetupToolEnvironment ==
    /\ envwire.state = "extracted"
    /\ \E class \in {"GitInstaller", "NodeJSInstaller"}, io \in FileOutcomes,
          setx \in SetxOutcomes, in_user_path \in BOOLEAN,
          get \in SetxOutcomes, set \in SetxOutcomes :
         LET a == append_to_env(envwire.platform, io, setx)
             p == set_system_path(envwire.platform, in_user_path, get, set)
         IN envwire' =
              Wiring(class,
                     [platform |-> envwire.platform, io |-> io, setx |-> setx,
                      in_user_path |-> in_user_path, get |-> get, set |-> set],
                     TRUE, TRUE,
                     [dotenv |-> a.dotenv, system_var |-> a.system_var,
                      user_path |-> ~a.raised /\ p.user_path],
                     a.raised \/ p.raised)
    /\ UNCHANGED <<pipelineVars, rmVars, dlVars, instVars, fnVars, cfg, worker, gitcheck>>

\* JavaInstaller.install lines 113-126 (and _install_maven lines 210-223):
\* the persistent variables first, then os.environ
JavaWiring ==
    /\ envwire.state = "extracted"
    /\ \E io \in FileOutcomes, setx \in SetxOutcomes, in_user_path \in BOOLEAN,
          get \in SetxOutcomes, set \in SetxOutcomes :
         LET a == append_to_env(envwire.platform, io, setx)
             p == set_system_path(envwire.platform, in_user_path, get, set)
         IN envwire' =
              Wiring("JavaInstaller",
                     [platform |-> envwire.platform, io |-> io, setx |-> setx,
                      in_user_path |-> in_user_path, get |-> get, set |-> set],
                     ~a.raised /\ ~p.raised,
                     ~a.raised /\ p.process_path,
                     [dotenv |-> a.dotenv, system_var |-> a.system_var,
                      user_path |-> ~a.raised /\ p.user_path],
                     a.raised \/ p.raised)
    /\ UNCHANGED <<pipelineVars, rmVars, dlVars, instVars, fnVars, cfg, worker, gitcheck>>

WireNext ==
    \/ SetupToolEnvironment
    \/ JavaWiring

SpecWire == WireInit /\ [][WireNext]_vars

(***************************************************************************)
(* main() up to the loop over the repositories: the Git check              *)
(* (DevStartCLI.ensure_git_installed) and what main does with its result.  *)
(***************************************************************************)
\* click.confirm: the answer, or click.Abort on Ctrl-C / end of input
ConfirmAnswers == {"yes", "no", "abort"}

\* GitInstaller.install() and GitInstaller.configure(): the value returned,
\* or an exception leaving the call
CallResults == {"True", "False", "raise"}

GitCheckInputs ==
    [is_installed : BOOLEAN, is_configured : BOOLEAN,
     confirm_install : ConfirmAnswers, install : CallResults,
     confirm_configure : ConfirmAnswers, configure : CallResults]

\* _configure_git: "returned", or "raise" when click aborts or configure raises
_configure_git(g) ==
    CASE g.confirm_configure = "abort" -> "raise"
      [] g.confirm_configure = "no" -> "returned"
      [] OTHER -> IF g.configure = "raise" THEN "raise" ELSE "returned"

\* a variant that goes on after the user declined the installation
ensure_git_installed_IgnoresDecline(g) ==
    IF g.is_installed
    THEN IF ~g.is_configured /\ _configure_git(g) = "raise" THEN "raise" ELSE "True"
    ELSE CASE g.confirm_install = "abort" -> "raise"
           [] g.confirm_install = "no" -> "True"
           [] g.install = "raise" -> "raise"
           [] g.install = "False" -> "False"
           [] OTHER -> IF _configure_git(g) = "raise" THEN "raise" ELSE "True"

\* ensure_git_installed: "True", "False", or "raise" when an exception leaves it
ensure_git_installed(g) ==
    IF g.is_installed
    THEN IF ~g.is_configured /\ _configure_git(g) = "raise" THEN "raise" ELSE "True"
    ELSE CASE g.confirm_install = "abort" -> "raise"
           [] g.confirm_install = "no" -> "False"
           [] g.install = "raise" -> "raise"
           [] g.install = "False" -> "False"
           [] OTHER -> IF _configure_git(g) = "raise" THEN "raise" ELSE "True"

GitInit ==
    /\ PipelineIdle
    /\ RmIdle
    /\ DlIdle
    /\ InstIdle
    /\ DetectorIdle
    /\ UrlIdle
    /\ ProxyIdle
    /\ EnvIdle
    /\ MavenIdle
    /\ cfg = Idle
    /\ envwire = Idle
    /\ worker = Idle
    /\ gitcheck = [state |-> "main"]

\* main, line 293: cli.ensure_git_installed() is called
EnsureGitInstalled ==
    /\ gitcheck.state = "main"
    /\ \E g \in GitCheckInputs :
         gitcheck' = [state |-> "checked", given |-> g, ret |-> ensure_git_installed(g)]
    /\ UNCHANGED <<pipelineVars, rmVars, dlVars, instVars, fnVars, cfg, envwire, worker>>

\* main, lines 293-299: False is exit(1); an exception leaving
\* ensure_git_installed is caught nowhere in main and ends the interpreter
\* with status 1 as well (click.Abort: click's own exit(1)); True enters the
\* loop
AfterGitCheck ==
    /\ gitcheck.state = "checked"
    /\ gitcheck' =
         IF gitcheck.ret = "True"
         THEN [state |-> "loop", given |-> gitcheck.given, ret |-> gitcheck.ret,
               jobs_started |-> 0]
         ELSE [state |-> "exit", given |-> gitcheck.given, ret |-> gitcheck.ret,
               jobs_started |-> 0, exit_code |-> 1]
    /\ UNCHANGED <<pipelineVars, rmVars, dlVars, instVars, fnVars, cfg, envwire, worker>>

\* main, lines 301-312: one pass of the loop starts one job
StartJob ==
    /\ gitcheck.state = "loop"
    /\ gitcheck.jobs_started < NumRepos
    /\ gitcheck' = [gitcheck EXCEPT !.jobs_started = @ + 1]
    /\ UNCHANGED <<pipelineVars, rmVars, dlVars, instVars, fnVars, cfg, envwire, worker>>

\* main, lines 314-320: the summary and the exit status
GitSummary ==
    /\ gitcheck.state = "loop"
    /\ gitcheck.jobs_started = NumRepos
    /\ \E any_failed \in BOOLEAN :
         gitcheck' = [state |-> "exit", given |-> gitcheck.given, ret |-> gitcheck.ret,
                      jobs_started |-> gitcheck.jobs_started,
                      exit_code |-> IF any_failed THEN 1 ELSE 0]
    /\ UNCHANGED <<pipelineVars, rmVars, dlVars, instVars, fnVars, cfg, envwire, worker>>

GitNext ==
    \/ EnsureGitInstalled
    \/ AfterGitCheck
    \/ StartJob
    \/ GitSummary

SpecGit == GitInit /\ [][GitNext]_vars

(***************************************************************************)
(* The GUI's worker thread: DevStartGUI.start_installation on the Tk main   *)
(* loop, run_installation on a thread of its own, installation_complete    *)
(* back on the main loop through root.after.  The steps of the two threads *)
(* interleave freely.                                                      *)
(***************************************************************************)
MaxRuns == 3

\* how the try block of run_installation ends: it runs to its end, returns
\* early (Git could not be installed), or an exception leaves it
RunOutcomes == {"completed", "early_return", "raise"}

\* worker threads that have been started and have not run to their end
Live(w) == { i \in DOMAIN w.threads : w.threads[i].at # "exited" }

WorkerInit ==
    /\ PipelineIdle
    /\ RmIdle
    /\ DlIdle
    /\ InstIdle
    /\ DetectorIdle
    /\ UrlIdle
    /\ ProxyIdle
    /\ EnvIdle
    /\ MavenIdle
    /\ cfg = Idle
    /\ envwire = Idle
    /\ gitcheck = Idle
    /\ worker = [state |-> "mainloop", start_button |-> "NORMAL", stdout |-> "real",
                 threads |-> <<>>, after |-> 0, report_button |-> "DISABLED",
                 last_click |-> "None"]

\* a variant that leaves the start button enabled while the worker runs
StartInstallation_LeavesButtonEnabled ==
    /\ worker.start_button = "NORMAL"
    /\ Len(worker.threads) < MaxRuns
    /\ \E no_urls \in BOOLEAN :
         worker' =
           IF no_urls
           THEN [worker EXCEPT !.last_click = "showerror"]
           ELSE [worker EXCEPT
                   !.last_click = "started",
                   !.threads = Append(@, [at |-> "redirect", old_stdout |-> "None",
                                          outcome |-> "None"])]
    /\ UNCHANGED <<pipelineVars, rmVars, dlVars, instVars, fnVars, cfg, envwire, gitcheck>>

\* start_installation, the command of the start button: Tk delivers the
\* click only while the button is enabled
StartInstallation ==
    /\ worker.start_button = "NORMAL"
    /\ Len(worker.threads) < MaxRuns
    /\ \E no_urls \in BOOLEAN :
         worker' =
           IF no_urls
           THEN [worker EXCEPT !.last_click = "showerror"]
           ELSE [worker EXCEPT
                   !.start_button = "DISABLED",
                   !.last_click = "started",
                   !.threads = Append(@, [at |-> "redirect", old_stdout |-> "None",
                                          outcome |-> "None"])]
    /\ UNCHANGED <<pipelineVars, rmVars, dlVars, instVars, fnVars, cfg, envwire, gitcheck>>

\* run_installation, lines 487-490: save the streams and redirect them
RedirectOutput ==
    /\ \E i \in DOMAIN worker.threads :
         /\ worker.threads[i].at = "redirect"
         /\ worker' = [worker EXCEPT
                         !.threads[i].old_stdout = worker.stdout,
                         !.threads[i].at = "try",
                         !.stdout = "redirector"]
    /\ UNCHANGED <<pipelineVars, rmVars, dlVars, instVars, fnVars, cfg, envwire, gitcheck>>

\* run_installation, lines 492-621: the try block
RunPipeline ==
    /\ \E i \in DOMAIN worker.threads, out \in RunOutcomes :
         /\ worker.threads[i].at = "try"
         /\ worker' = [worker EXCEPT
                         !.threads[i].outcome = out,
                         !.threads[i].at = "finally"]
    /\ UNCHANGED <<pipelineVars, rmVars, dlVars, instVars, fnVars, cfg, envwire, gitcheck>>

\* run_installation, lines 623-626: finally, restore the saved streams
RestoreOutput ==
    /\ \E i \in DOMAIN worker.threads :
         /\ worker.threads[i].at = "finally"
         /\ worker' = [worker EXCEPT
                         !.stdout = worker.threads[i].old_stdout,
                         !.threads[i].at = "after"]
    /\ UNCHANGED <<pipelineVars, rmVars, dlVars, instVars, fnVars, cfg, envwire, gitcheck>>

\* run_installation, line 629: self.root.after(0, self.installation_complete)
\* is the thread's last statement
ScheduleComplete ==
    /\ \E i \in DOMAIN worker.threads :
         /\ worker.threads[i].at = "after"
         /\ worker' = [worker EXCEPT
                         !.after = @ + 1,
                         !.threads[i].at = "exited"]
    /\ UNCHANGED <<pipelineVars, rmVars, dlVars, instVars, fnVars, cfg, envwire, gitcheck>>

\* installation_complete, run by the main loop for a scheduled callback
InstallationComplete ==
    /\ worker.after > 0
    /\ worker' = [worker EXCEPT
                    !.after = @ - 1,
                    !.start_button = "NORMAL",
                    !.report_button = "NORMAL"]
    /\ UNCHANGED <<pipelineVars, rmVars, dlVars, instVars, fnVars, cfg, envwire, gitcheck>>

WorkerNext ==
    \/ StartInstallation
    \/ RedirectOutput
    \/ RunPipeline
    \/ RestoreOutput
    \/ ScheduleComplete
    \/ InstallationComplete

SpecWorker == WorkerInit /\ [][WorkerNext]_vars

(***************************************************************************)
(* Properties                                                              *)
(***************************************************************************)
Has(e) == \E i \in DOMAIN events : events[i] = e

\* every occurrence of b comes after an occurrence of a
Precedes(a, b) ==
    \A j \in DOMAIN events : events[j] = b => \E i \in 1..(j - 1) : events[i] = a

Occurrences(e) == Cardinality({ i \in DOMAIN events : events[i] = e })

RmEvents == {"rmtree_true", "rmtree_false", "rmtree_raised"}

\* the last safe_rmtree call of the job's rollback returned False
LastRmtreeReturnedFalse ==
    \E i \in DOMAIN events :
        /\ events[i] = "rmtree_false"
        /\ \A j \in (i + 1)..Len(events) : events[j] \notin RmEvents

ClonedThenUnknown ==
    /\ pc = "returned"
    /\ ret = "False"
    /\ Has("clone_ok")
    /\ Has("detect_unknown")

\* C1 as stated: if the clone succeeds and detection returns UNKNOWN, then
\* when process_repository returns False the job's clone directory does not
\* exist.
C1_RollbackInvariant ==
    ClonedThenUnknown => ~exists(fs, repo_path)

\* C1 amended: if the clone succeeds and detection returns UNKNOWN, then when
\* process_repository returns False the job's clone directory does not exist
\* unless the rollback's last safe_rmtree call returned False; it exists
\* exactly in that case.
C1_RollbackUnlessRemovalFailed ==
    ClonedThenUnknown => (exists(fs, repo_path) <=> LastRmtreeReturnedFalse)

C1_Witness ==
    /\ ClonedThenUnknown
    /\ Has("rmtree_true")
    /\ ~exists(fs, repo_path)
    /\ fsAtStart[repo_path] = ABSENT

ReportedFailures == {"detect_unknown", "no_installer", "install_failed", "configure_failed"}

\* C2: after a successful clone, every reported failure (unknown technology,
\* no installer, install() False, configure() False) is followed at once by
\* a call of _rollback on the clone directory, and the job does not end
\* before that call nor end other than FAILED.
C2_ReportedFailuresRollBack ==
    \A j \in DOMAIN events :
        events[j] \in ReportedFailures =>
            /\ \E i \in 1..(j - 1) : events[i] = "clone_ok"
            /\ j < Len(events)
            /\ events[j + 1] = "rollback_call"
            /\ pc \in {"rollback", "returned", "main", "exit"}
            /\ ret # "True"

C2_Witness ==
    /\ pc = "returned"
    /\ ret = "False"
    /\ Has("install_failed")
    /\ Has("rollback_call")
    /\ Has("rmtree_true")

\* C3: an exception that is not a DevStartError and escapes install() or
\* configure() after a successful clone enters rollback, and the clone
\* directory is gone when the job is counted as failed.
C3_UnexpectedExceptionRollsBack ==
    (/\ pc = "returned"
     /\ Has("clone_ok")
     /\ (Has("install_raised") \/ Has("configure_raised")))
        => (Has("rollback_call") /\ ~exists(fs, repo_path))

\* C4: a job whose URL fails validation ends FAILED with no clone attempted
\* and with the projects directory exactly as it was when the job started
\* (checked for jobs that were not cancelled).
C4_ValidationPrecedesMutation ==
    (/\ pc = "returned"
     /\ ~validate_repo_url(repositories[idx])
     /\ ~Has("interrupt"))
        => (ret # "True" /\ ~Has("clone_call") /\ fs = fsAtStart)

\* C5: if the clone step fails, the job ends FAILED and the job's clone
\* directory does not exist afterwards.
C5_FailedCloneLeavesNoDirectory ==
    (pc = "returned" /\ Has("clone_failed"))
        => (ret = "False" /\ ~exists(fs, repo_path))

\* C6: a directory that existed at a job's target path when the job started
\* is changed or removed only after the user has confirmed the overwrite.
C6_OverwriteOnlyAfterConfirmation ==
    \A n \in Names :
        (fsAtStart[n] # ABSENT /\ fs[n] # fsAtStart[n])
            => (n = repo_path /\ Has("confirm_yes"))

\* C7: when the target directory pre-exists and the user declines the
\* overwrite, or accepts and safe_rmtree returns False, the job ends FAILED
\* with no validation, no clone attempt and no rollback; after a decline the
\* projects directory is as it was when the job started.
C7_DeclineOrLockedIsTerminal ==
    (Has("confirm_no") \/ Has("overwrite_failed")) =>
        /\ fsAtStart[repo_path] # ABSENT
        /\ pc \in {"returned", "main", "exit"}
        /\ ret = "False"
        /\ ~Has("clone_call")
        /\ ~Has("rollback_call")
        /\ ~Has("interrupt")
        /\ Has("confirm_no") => fs = fsAtStart
        /\ Has("overwrite_failed") => exists(fs, repo_path)

C7_Witness ==
    /\ pc = "returned"
    /\ Has("confirm_yes")
    /\ Has("overwrite_failed")
    /\ ret = "False"

\* C8: process_repository returns True only after, in this order, validation
\* succeeded, the clone succeeded, detection returned a technology with an
\* installer, the toolchain was reported installed or install() returned
\* True, and configure() returned True; no stage starts before its
\* predecessor succeeded; install() is called at most once and only after
\* is_installed() returned False.
C8_ReadyOnlyThroughEveryStage ==
    /\ ret = "True" =>
        /\ Len(events) > 0
        /\ events[Len(events)] = "configure_ok"
        /\ Has("validate_ok")
        /\ Has("clone_ok")
        /\ Has("detect_ok")
        /\ technology # "UNKNOWN"
        /\ _get_installer(technology) # "None"
        /\ installer = _get_installer(technology)
        /\ Has("is_installed_true") \/ Has("install_ok")
        /\ exists(fs, repo_path)
    /\ Precedes("validate_ok", "clone_call")
    /\ Precedes("clone_ok", "detect_ok")
    /\ Precedes("clone_ok", "detect_unknown")
    /\ Precedes("detect_ok", "is_installed_true")
    /\ Precedes("detect_ok", "is_installed_false")
    /\ Precedes("is_installed_false", "install_call")
    /\ ~(Has("is_installed_true") /\ Has("install_call"))
    /\ Occurrences("install_call") <= 1
    /\ Occurrences("clone_call") <= 1
    /\ Occurrences("configure_call") <= 1
    /\ \A j \in DOMAIN events :
          events[j] = "configure_call" =>
              events[j - 1] \in {"is_installed_true", "install_ok"}

C8_Witness ==
    /\ pc = "returned"
    /\ ret = "True"
    /\ Has("is_installed_false")
    /\ Has("install_ok")
    /\ Has("configure_ok")

\* a KeyboardInterrupt arrived during the clone or a later stage
CancelledAfterValidation ==
    \E i \in DOMAIN events :
        /\ events[i] = "interrupt"
        /\ \E k \in 1..(i - 1) : events[k] = "validate_ok"

\* the step in which the KeyboardInterrupt handler runs, at the clone stage
\* or later
CancellationStep ==
    /\ Has("validate_ok")
    /\ ~Has("interrupt")
    /\ Len(events') > Len(events)
    /\ events'[Len(events) + 1] = "interrupt"

RmtreeFailed == Has("rmtree_false") \/ Has("rmtree_raised")

\* C10: when the rollback's removal of the clone directory fails, the
\* failure is reported as a rollback failure and never as a completed
\* rollback; the job is still FAILED and is counted as failed exactly once.
C10_RollbackFailureReported ==
    /\ \A i \in DOMAIN events :
          (events[i] \in {"rmtree_false", "rmtree_raised"} /\ Has("clone_ok")) =>
              /\ i < Len(events)
              /\ events[i + 1] = "log_rollback_failed"
    /\ (RmtreeFailed /\ pc = "returned") => ret # "True"
    /\ (RmtreeFailed /\ pc = "main" /\ idx > 1) =>
          /\ Len(results) = idx - 1
          /\ results[idx - 1] = "FAILED"
          /\ successful + failed = idx - 1
          /\ failed >= 1

\* C11: the run exits with code 0 exactly when every repository ended
\* READY, with code 1 when at least one ended FAILED, and the successful and
\* failed counts of the summary add up to the number of repositories given.
C11_ExitCodeReflectsOutcomes ==
    pc = "exit" =>
        /\ Len(results) = NumRepos
        /\ exit_code \in {0, 1}
        /\ exit_code = 0 <=> \A i \in DOMAIN results : results[i] = "READY"
        /\ (\E i \in DOMAIN results : results[i] = "FAILED") => exit_code = 1
        /\ successful = Cardinality({ i \in DOMAIN results : results[i] = "READY" })
        /\ failed = Cardinality({ i \in DOMAIN results : results[i] = "FAILED" })
        /\ successful + failed = NumRepos

C11_Witness ==
    /\ pc = "exit"
    /\ exit_code = 1
    /\ successful >= 1
    /\ failed >= 1
    /\ ret = "Exception"

(***************************************************************************)
(* Properties of safe_rmtree (SpecRmtree)                                  *)
(***************************************************************************)
AlwaysLocked ==
    \A i \in 1..rm_args.max_retries : rm_args.plan[i] = "perm"

\* C16: for every max_retries >= 1, when every removal attempt on an existing
\* path raises a permission error, safe_rmtree makes exactly max_retries
\* removal attempts, sleeps exactly max_retries - 1 times and returns False.
C16_RetryBound ==
    (/\ rm_ret.front = "cli"
     /\ rm_args.path_exists
     /\ rm_args.max_retries >= 1
     /\ AlwaysLocked)
    => /\ rm_ret.ret = "False"
       /\ rm_ret.attempts = rm_args.max_retries
       /\ rm_ret.sleeps = rm_args.max_retries - 1
       /\ ~rm_ret.removed

C16_Witness ==
    /\ rm_ret.front = "cli"
    /\ rm_args.path_exists
    /\ rm_args.max_retries = MaxRetriesArg
    /\ AlwaysLocked
    /\ rm_ret.attempts = MaxRetriesArg

\* C17: safe_rmtree on a path that does not exist returns True at once, with
\* no removal attempt and no sleep, whatever max_retries is.
C17_AbsentPathSucceeds ==
    (rm_ret.front = "cli" /\ ~rm_args.path_exists)
    => /\ rm_ret.ret = "True"
       /\ rm_ret.attempts = 0
       /\ rm_ret.sleeps = 0

\* C18: an error of a removal attempt that is not a permission error (an
\* OSError or any other exception) makes safe_rmtree return False after
\* exactly one attempt, without sleeping, and nothing propagates to the caller.
C18_NonLockErrorAborts ==
    (/\ rm_ret.front = "cli"
     /\ rm_args.path_exists
     /\ rm_args.max_retries >= 1
     /\ rm_args.plan[1] \in {"oserr", "exc"})
    => /\ rm_ret.ret = "False"
       /\ rm_ret.attempts = 1
       /\ rm_ret.sleeps = 0

(***************************************************************************)
(* Properties of download_file and download_and_extract (SpecDownload)     *)
(***************************************************************************)
Fetched == dl_body.net = "ok"

SameUpToCase(a, b) ==
    /\ Len(a) = Len(b)
    /\ \A i \in 1..Len(a) : a[i] = b[i] \/ {a[i], b[i]} = {"a", "A"}

AllUnderOneTop(namelist) ==
    /\ namelist # {}
    /\ \E d \in { first_part(n) : n \in namelist } :
         \A n \in namelist : num_parts(n) > 1 /\ first_part(n) = d

\* C19: download_and_extract reports an extracted root exactly when every
\* entry of the archive lies under one and the same top-level directory;
\* with two or more top-level names, or with an entry directly at the top
\* level, extraction succeeds and the root reported is None.
C19_RootIffSingleTopLevel ==
    (dl_pc = "done" /\ dl_kind = "ok") =>
        /\ dl_ret.success = "True"
        /\ dl_ret.extracted # "None" <=> AllUnderOneTop(dl_archive.namelist)

Failures == {"download", "checksum", "extraction"}

\* C20: a download failure, a checksum mismatch and an extraction failure
\* give the caller results that differ from one another.
C20_FailureKindsDistinguished ==
    (/\ dl_pc = "done"
     /\ dl_kind \in Failures
     /\ dl_prev.kind \in Failures
     /\ dl_kind # dl_prev.kind)
    => dl_ret # dl_prev.ret

(***************************************************************************)
(* Properties of the installers (SpecInstall)                              *)
(***************************************************************************)
Verified == {"git", "nodejs"}

\* C13 as claimed: every archive an installer downloads (Git, Node.js, JDK,
\* Maven) is compared against an expected checksum, and none is extracted
\* without a successful comparison.
C13_EveryDownloadVerified ==
    \A d \in last_install.downloads :
        /\ d.supplied
        /\ d.extracted => d.compared

\* C13, amended: the Git and Node.js archives are downloaded with an expected
\* checksum and are never extracted without a successful comparison; the JDK
\* and Maven archives are downloaded with no expected checksum and are
\* extracted without any comparison.
C13_VerifiedWhereChecksumKnown ==
    \A d \in last_install.downloads :
        /\ d.supplied <=> d.dir \in Verified
        /\ d.dir \in Verified => (d.extracted => d.compared)
        /\ d.dir \notin Verified => ~d.compared

C13_Witness ==
    /\ last_install.installer = "NodeJSInstaller"
    /\ \E d \in last_install.downloads : d.supplied /\ d.compared /\ d.extracted
    /\ "jdk-17" \in returned_true
    /\ "maven" \in returned_true

C15_AtMostOneDownloadPerTool ==
    (last_install.ret # "None" /\ ~last_install.probe) =>
        \A d \in last_install.downloads : d.dir \notin last_install.true_before

(***************************************************************************)
(* Properties of the detector (SpecDetector)                               *)
(***************************************************************************)
Detected == detector.technology # "None"

\* the files a listing of the repository shows
Listed ==
    IF detector.repo.exists /\ detector.repo.listing = "ok"
    THEN { x \in RepoFiles : detector.repo.files[x] # "absent" }
    ELSE {}

HasSpringIndicator ==
    \E x \in Listed \cap BuildFiles : detector.repo.files[x] = "spring"

Markers(tech) == DETECTION_PATTERNS[tech].files \cap Listed

\* every file either table of the detector treats as a Gradle marker
GradleMarkers ==
    (DETECTION_PATTERNS["JAVA_GRADLE"].files \cup {"settings.gradle"}) \cap Listed

\* the technology the decision order gives, from the marker tables alone
FirstMatch ==
    CASE HasSpringIndicator -> "JAVA_SPRINGBOOT"
      [] Markers("JAVA_MAVEN") # {} -> "JAVA_MAVEN"
      [] GradleMarkers # {} -> "JAVA_GRADLE"
      [] Markers("PYTHON") # {} -> "PYTHON"
      [] Markers("NODEJS") # {} -> "NODEJS"
      [] OTHER -> "UNKNOWN"

\* the installer family of a technology: the three Java kinds count as one
Family(tech) ==
    IF tech \in {"JAVA_SPRINGBOOT", "JAVA_MAVEN", "JAVA_GRADLE"} THEN "JAVA" ELSE tech

\* C22: detect is first-match-wins over Spring Boot, Maven, Gradle, Python,
\* Node.js, Unknown: with markers of several technologies in the root, the
\* earliest in this order decides (the three Java kinds taken as one result).
C22_DetectionPrecedence ==
    Detected => Family(detector.technology) = Family(FirstMatch)

\* C23: pom.xml without a Spring indicator is detected as JAVA_MAVEN and
\* Gradle markers alone, without a Spring indicator, as JAVA_GRADLE, both
\* distinct from JAVA_SPRINGBOOT.
C23_MavenAndGradleKinds ==
    (Detected /\ ~HasSpringIndicator) =>
        /\ "pom.xml" \in Listed => detector.technology = "JAVA_MAVEN"
        /\ (GradleMarkers # {} /\ Listed \subseteq GradleMarkers)
               => detector.technology = "JAVA_GRADLE"

\* C24: a root that holds any one of build.gradle, build.gradle.kts or
\* gradlew, and no pom.xml, is detected as a Java Gradle project, never as
\* Python, Node.js or Unknown.
C24_EveryGradleMarkerCounts ==
    (/\ Detected
     /\ {"build.gradle", "build.gradle.kts", "gradlew"} \cap Listed # {}
     /\ "pom.xml" \notin Listed)
    => Family(detector.technology) = "JAVA"

\* C25: when detect returns UNKNOWN, detect_build_tool returns UNKNOWN.
C25_UnknownHasNoBuildTool ==
    (detector.technology = "UNKNOWN" /\ detector.build_tool # "None")
        => detector.build_tool = "UNKNOWN"

\* C26: detect returns UNKNOWN, and raises nothing, for an empty directory,
\* for a path that does not exist and when listing the directory fails with
\* a permission or I/O error.
C26_DetectionDegradesToUnknown ==
    (/\ Detected
     /\ \/ ~detector.repo.exists
        \/ detector.repo.listing # "ok"
        \/ \A x \in RepoFiles : detector.repo.files[x] = "absent")
    => detector.technology = "UNKNOWN"

C26_Witness ==
    /\ Detected
    /\ detector.repo.exists
    /\ detector.repo.listing = "OSError"
    /\ detector.repo.files["pom.xml"] = "spring"
    /\ detector.technology = "UNKNOWN"

(***************************************************************************)
(* Properties of the Maven mirror loop (SpecMaven)                         *)
(***************************************************************************)
MirrorFailed(k) ==
    download_file(maven.outcomes[k], <<>>, None, "absent").ret # "True"

Host(netloc) == split_first(split_last(netloc, "@"), ":")

\* C27: validate_repo_url accepts a URL exactly when its scheme is one of
\* http, https, git, its host is present and at least 3 characters long,
\* it holds no shell metacharacter, ".." or percent-encoded byte, and its
\* path is neither empty nor "/"; everything else raises InvalidURLError.
C27_AcceptedIffSafe ==
    urlcall.valid # "None" =>
        (urlcall.valid = "True" <=>
            /\ urlcall.url.scheme \in {"http", "https", "git"}
            /\ Len(Host(urlcall.url.netloc)) >= 3
            /\ ~urlcall.url.dangerous
            /\ urlcall.url.segs # <<>>)

BothNames == urlcall.name # "None" /\ urlcall.name_appended # "None"

\* C28 as stated: a URL, the URL with "/" appended and the URL with ".git"
\* appended all give the same repository name.
C28_SameNameForVariants ==
    BothNames => urlcall.name_appended = urlcall.name

\* C28: get_repo_name gives the last path segment without trailing "/" and
\* without a ".git" suffix; a URL that does not itself end in "/" or ".git"
\* gives the same name with "/" appended and with ".git" appended.
C28_SameNameForPlainUrl ==
    /\ (urlcall.name # "None" /\ urlcall.url.segs # <<>>)
          => urlcall.name = Chars(get_repo_name(urlcall.url))
    /\ (/\ BothNames
        /\ ~endswith(url_string(urlcall.url), <<"/">>)
        /\ ~endswith(url_string(urlcall.url), DotGit))
          => urlcall.name_appended = urlcall.name

C28_Witness ==
    /\ BothNames
    /\ urlcall.url.segs = <<Seg("user", FALSE), Seg("a", FALSE)>>
    /\ ~urlcall.url.slash
    /\ urlcall.appended = DotGit
    /\ urlcall.name = <<"a">>
    /\ urlcall.name_appended = <<"a">>

(***************************************************************************)
(* Properties of the proxy manager (SpecProxy)                             *)
(***************************************************************************)
\* C29: a set_proxy call that raises InvalidProxyURLError has changed
\* neither the http_proxy/https_proxy fields nor the proxy variables of the
\* process environment.
C29_InvalidProxyChangesNothing ==
    (proxy.call = "set_proxy" /\ proxy.outcome = "InvalidProxyURLError")
        => ProxySettings(proxy) = proxy.before

(***************************************************************************)
(* Properties of the environment manager (SpecEnv)                         *)
(***************************************************************************)
\* a name is an identifier: a letter or "_" followed by letters, digits, "_"
IsIdentifier(name) ==
    /\ name # <<>>
    /\ name[1] \in NameStart
    /\ \A i \in 1..Len(name) : name[i] \in NameChar

\* C30: when a name passed to create_env_file or append_to_env is invalid,
\* InvalidEnvironmentVariableError is raised, the .env file is not created,
\* truncated or appended to, and no system variable is set.
C30_InvalidNameWritesNothing ==
    (/\ envfile.call # "None"
     /\ \E i \in 1..Len(envfile.names) : ~IsIdentifier(envfile.names[i]))
    => /\ envfile.outcome = "InvalidEnvironmentVariableError"
       /\ EnvSettings(envfile) = envfile.before

(***************************************************************************)
(* Properties of configure(), run_command and download_file (SpecCalls)    *)
(***************************************************************************)
\* C31: when the dependency-install or build step of a configure() fails
\* and no other step does, configure() returns True (so the job is READY).
C31_DependencyFailureIsNotFatal ==
    (/\ cfg.state = "returned"
     /\ cfg.call = "configure"
     /\ cfg.dependency = "failed"
     /\ ~cfg.other_failed)
    => cfg.ret = "True"

\* C36: download_file and run_command never raise; whatever the request or
\* the subprocess call raises becomes a failure return value.
C36_NeverRaise ==
    (cfg.state = "returned" /\ cfg.call \in {"run_command", "download_file"})
        => cfg.ret # "raise"

(***************************************************************************)
(* Properties of the environment wiring (SpecWire)                         *)
(***************************************************************************)
\* a persistent write did not take place although it was due
PersistentWriteFailed ==
    \/ ~envwire.persisted.dotenv
    \/ envwire.given.platform = "win32" /\ ~envwire.persisted.system_var
    \/ envwire.given.platform = "win32" /\ ~envwire.persisted.user_path

\* C32: the wiring writes the process variables and the persistent ones,
\* and when a persistent write fails (.env, setx, the PATH update) install()
\* still returns True, with the process variables written and no exception.
C32_PersistentFailureIsAWarning ==
    envwire.state = "returned" =>
        /\ envwire.ret = "True"
        /\ envwire.process_home
        /\ envwire.process_path
        /\ ~PersistentWriteFailed =>
              /\ envwire.persisted.dotenv
              /\ envwire.given.platform = "win32" =>
                    envwire.persisted.system_var /\ envwire.persisted.user_path

(***************************************************************************)
(* Properties of the GUI pipeline against the CLI's (SpecGUI)              *)
(***************************************************************************)
\* C33: the GUI gives a job the terminal outcome and the final on-disk
\* state the CLI gives it; in particular a job that ends FAILED by a
\* reported failure after a successful clone has no clone directory left,
\* as after the CLI's rollback.
C33_GuiRemovesCloneOnFailure ==
    (/\ pc = "g_loop"
     /\ ret = "False"
     /\ Has("clone_ok")
     /\ \E e \in ReportedFailures : Has(e))
        => ~exists(fs, repo_path)

(***************************************************************************)
(* Properties of main's loop over the jobs (Spec)                          *)
(***************************************************************************)
\* a job is under way: process_repository has been entered and main has not
\* yet counted its outcome
JobRunning == pc \notin {"main", "exit"}

GitDeclinedOrFailed ==
    /\ ~gitcheck.given.is_installed
    /\ \/ gitcheck.given.confirm_install = "no"
       \/ gitcheck.given.confirm_install = "yes" /\ gitcheck.given.install # "True"

\* C35: no job is started unless ensure_git_installed returned True, and
\* when Git is missing and the user declines its installation or the
\* installation fails, the run exits with code 1 without any job started.
C35_NoJobWithoutGit ==
    /\ (gitcheck.state \in {"loop", "exit"} /\ gitcheck.jobs_started > 0)
          => gitcheck.ret = "True"
    /\ (gitcheck.state \in {"checked", "loop", "exit"} /\ GitDeclinedOrFailed)
          => /\ gitcheck.ret # "True"
             /\ gitcheck.state # "loop"
             /\ gitcheck.state = "exit" =>
                   (gitcheck.exit_code = 1 /\ gitcheck.jobs_started = 0)

C35_Witness ==
    /\ gitcheck.state = "exit"
    /\ GitDeclinedOrFailed
    /\ gitcheck.given.confirm_install = "no"
    /\ gitcheck.exit_code = 1
    /\ gitcheck.jobs_started = 0

(***************************************************************************)
(* Properties of a failed or finished install() (SpecInstall)              *)
(***************************************************************************)
\* C37: after a GitInstaller.install() that returned False the Git tool
\* directory does not exist, so that a later install() returns True only
\* with a complete Git directory, downloaded and extracted.
C37_FailedGitInstallLeavesNoDirectory ==
    last_install.installer = "GitInstaller" =>
        /\ last_install.ret = "False" => tools_dir["git"] = "absent"
        /\ last_install.ret = "True" => tools_dir["git"] = "full"

\* C38: when install() returns True after downloading and extracting a
\* tool, the home directory it has wired into the environment for that tool
\* exists on disk.
C38_WiredHomeExists ==
    last_install.ret = "True" =>
        \A dl \in last_install.downloads :
            (dl.extracted /\ dl.dir \in wired) => tools_dir[dl.dir] # "absent"

(***************************************************************************)
(* Properties of what rollback may delete (Spec)                           *)
(***************************************************************************)
\* C39: rollback deletes only a directory created by the current job's own
\* clone step; a directory that was at the target path before the job and
\* whose overwrite the user has not confirmed is never deleted by rollback,
\* also when the job is cancelled or fails before the clone step.
C39_RollbackDeletesOnlyOwnClone ==
    [][(pc = "rollback" /\ fs' # fs) =>
          /\ fs' = Remove(fs, repo_path)
          /\ fs[repo_path] = idx
          /\ Has("clone_call")
      ]_vars

(***************************************************************************)
(* Properties of the GUI's worker thread (SpecWorker)                      *)
(***************************************************************************)
\* C40: at most one worker thread runs at any time, a run starts only when
\* no earlier worker is still running, and once a run is over (its try
\* block completed, returned early or raised) stdout/stderr are the real
\* streams again and the start button is enabled again.
C40_OneWorkerAndControlsRestored ==
    /\ Cardinality(Live(worker)) <= 1
    /\ worker.start_button = "NORMAL" => Live(worker) = {}
    /\ Live(worker) = {} =>
          /\ worker.stdout = "real"
          /\ worker.after = 0 => worker.start_button = "NORMAL"
    /\ \A i \in DOMAIN worker.threads :
          worker.threads[i].at \in {"after", "exited"} =>
              /\ worker.threads[i].outcome \in RunOutcomes
              /\ worker.threads[i].old_stdout = "real"
              /\ i = Len(worker.threads) => worker.stdout = "real"

C40_Witness ==
    /\ Len(worker.threads) = 2
    /\ worker.threads[1].outcome = "raise"
    /\ worker.threads[2].outcome = "early_return"
    /\ worker.threads[2].at = "exited"
    /\ worker.after = 0
    /\ worker.start_button = "NORMAL"
    /\ worker.stdout = "real"

====
